---- MODULE Spec2Model ----
(***************************************************************************)
(* SpannerSchemalessGraph (langchain_google_spanner/schemaless_graph_store) *)
(* as a state machine: the store's operations against a Spanner backend    *)
(* (schema catalog, node and edge tables, DDL operations, transactions).   *)
(*                                                                         *)
(* Text is a sequence of Unicode code points, bytes are 0..255, a 32-bit   *)
(* word is a pair <<high 16 bits, low 16 bits>>, and an int64 identifier   *)
(* is its 8 bytes, big-endian two's complement (Int64Bytes).               *)
(***************************************************************************)
EXTENDS Integers, Sequences, FiniteSets, TLC

(***************************************************************************)
(* Text: str.encode('utf-8')                                               *)
(***************************************************************************)

\* The UTF-8 bytes of one code point of the Basic Multilingual Plane.
Utf8OfCodePoint(c) ==
    IF c < 128 THEN <<c>>
    ELSE IF c < 2048 THEN <<192 + (c \div 64), 128 + (c % 64)>>
    ELSE <<224 + (c \div 4096), 128 + ((c \div 64) % 64), 128 + (c % 64)>>

RECURSIVE Utf8Encode(_)
Utf8Encode(s) ==
    IF s = <<>> THEN <<>>
    ELSE Utf8OfCodePoint(Head(s)) \o Utf8Encode(Tail(s))

(***************************************************************************)
(* hashlib.sha256 (FIPS 180-4) on 32-bit words held as two 16-bit halves   *)
(***************************************************************************)

Pow2(n) == 2^n

RECURSIVE Xor16(_, _)
Xor16(a, b) ==
    IF a = 0 THEN b
    ELSE IF b = 0 THEN a
    ELSE ((a + b) % 2) + 2 * Xor16(a \div 2, b \div 2)

RECURSIVE And16(_, _)
And16(a, b) ==
    IF a = 0 \/ b = 0 THEN 0
    ELSE ((a % 2) * (b % 2)) + 2 * And16(a \div 2, b \div 2)

Xor32(x, y) == <<Xor16(x[1], y[1]), Xor16(x[2], y[2])>>

And32(x, y) == <<And16(x[1], y[1]), And16(x[2], y[2])>>

Not32(x) == <<65535 - x[1], 65535 - x[2]>>

Add32(x, y) ==
    LET lo == x[2] + y[2]
    IN  <<(x[1] + y[1] + (lo \div 65536)) % 65536, lo % 65536>>

Shr32(x, n) ==
    IF n >= 16 THEN <<0, x[1] \div Pow2(n - 16)>>
    ELSE <<x[1] \div Pow2(n),
           (x[2] \div Pow2(n)) + (x[1] % Pow2(n)) * Pow2(16 - n)>>

Rotr32(x, n) ==
    LET y == IF n >= 16 THEN <<x[2], x[1]>> ELSE x
        m == n % 16
    IN  <<(y[1] \div Pow2(m)) + (y[2] % Pow2(m)) * Pow2(16 - m),
          (y[2] \div Pow2(m)) + (y[1] % Pow2(m)) * Pow2(16 - m)>>

\* The round constants K[0..63] and the initial hash value H(0).
Sha256K ==
    <<
        <<17034, 12184>>, <<28983, 17553>>, <<46528, 64463>>, <<59829, 56229>>,
        <<14678, 49755>>, <<23025, 4593>>, <<37439, 33444>>, <<43804, 24277>>,
        <<55303, 43672>>, <<4739, 23297>>, <<9265, 34238>>, <<21772, 32195>>,
        <<29374, 23924>>, <<32990, 45566>>, <<39900, 1703>>, <<49563, 61812>>,
        <<58523, 27073>>, <<61374, 18310>>, <<4033, 40390>>, <<9228, 41420>>,
        <<11753, 11375>>, <<19060, 33962>>, <<23728, 43484>>, <<30457, 35034>>,
        <<38974, 20818>>, <<43057, 50797>>, <<45059, 10184>>, <<48985, 32711>>,
        <<50912, 3059>>, <<54695, 37191>>, <<1738, 25425>>, <<5161, 10599>>,
        <<10167, 2693>>, <<11803, 8504>>, <<19756, 28156>>, <<21304, 3347>>,
        <<25866, 29524>>, <<30314, 2747>>, <<33218, 51502>>, <<37490, 11397>>,
        <<41663, 59553>>, <<43034, 26187>>, <<49739, 35696>>, <<51052, 20899>>,
        <<53650, 59417>>, <<54937, 1572>>, <<62478, 13701>>, <<4202, 41072>>,
        <<6564, 49430>>, <<7735, 27656>>, <<10056, 30540>>, <<13488, 48309>>,
        <<14620, 3251>>, <<20184, 43594>>, <<23452, 51791>>, <<26670, 28659>>,
        <<29839, 33518>>, <<30885, 25455>>, <<33992, 30740>>, <<36039, 520>>,
        <<37054, 65530>>, <<42064, 27883>>, <<48889, 41975>>, <<50801, 30962>>
    >>

Sha256H0 ==
    <<
        <<27145, 58983>>, <<47975, 44677>>, <<15470, 62322>>, <<42319, 62778>>,
        <<20750, 21119>>, <<39685, 26764>>, <<8067, 55723>>, <<23520, 52505>>
    >>

\* n zero bytes.
ZeroBytes(n) == [i \in 1..n |-> 0]

\* The message length in bits as 8 bytes, big-endian (messages under 8 KiB).
LengthBytes(n) ==
    <<0, 0, 0, 0, 0, 0, (n * 8) \div 256, (n * 8) % 256>>

\* Padding: the byte 0x80, zeros up to 56 mod 64, then the bit length.
Sha256Pad(msg) ==
    LET n == Len(msg)
        z == (55 - n) % 64
    IN  msg \o <<128>> \o ZeroBytes(z) \o LengthBytes(n)

\* The 16 big-endian words of the block that starts after byte `off`.
BlockWords(m, off) ==
    [t \in 1..16 |->
        <<m[off + 4 * t - 3] * 256 + m[off + 4 * t - 2],
          m[off + 4 * t - 1] * 256 + m[off + 4 * t]>>]

SmallSigma0(x) == Xor32(Xor32(Rotr32(x, 7), Rotr32(x, 18)), Shr32(x, 3))

SmallSigma1(x) == Xor32(Xor32(Rotr32(x, 17), Rotr32(x, 19)), Shr32(x, 10))

BigSigma0(x) == Xor32(Xor32(Rotr32(x, 2), Rotr32(x, 13)), Rotr32(x, 22))

BigSigma1(x) == Xor32(Xor32(Rotr32(x, 6), Rotr32(x, 11)), Rotr32(x, 25))

Ch(x, y, z) == Xor32(And32(x, y), And32(Not32(x), z))

Maj(x, y, z) == Xor32(Xor32(And32(x, y), And32(x, z)), And32(y, z))

\* The message schedule W[1..64] grown from the 16 words of a block.
RECURSIVE Schedule(_)
Schedule(w) ==
    LET t == Len(w) + 1
    IN  IF t > 64 THEN w
        ELSE Schedule(Append(w,
                 Add32(Add32(SmallSigma1(w[t - 2]), w[t - 7]),
                       Add32(SmallSigma0(w[t - 15]), w[t - 16]))))

\* Rounds t..64 on the working variables v = <<a, b, c, d, e, f, g, h>>.
RECURSIVE Rounds(_, _, _)
Rounds(v, w, t) ==
    IF t > 64 \/ Len(v) # 8 THEN v
    ELSE LET t1 == Add32(Add32(Add32(v[8], BigSigma1(v[5])),
                               Add32(Ch(v[5], v[6], v[7]), Sha256K[t])), w[t])
             t2 == Add32(BigSigma0(v[1]), Maj(v[1], v[2], v[3]))
         IN  Rounds(<<Add32(t1, t2), v[1], v[2], v[3],
                      Add32(v[4], t1), v[5], v[6], v[7]>>, w, t + 1)

Compress(h, block) ==
    LET v == Rounds(h, Schedule(block), 1)
    IN  [i \in 1..8 |-> Add32(h[i], v[i])]

RECURSIVE Sha256Blocks(_, _, _)
Sha256Blocks(h, m, off) ==
    IF off >= Len(m) THEN h
    ELSE Sha256Blocks(Compress(h, BlockWords(m, off)), m, off + 64)

WordBytes(x) == <<x[1] \div 256, x[1] % 256, x[2] \div 256, x[2] % 256>>

\* hashlib.sha256(data).digest(): 32 bytes.
Sha256Digest(data) ==
    LET h == Sha256Blocks(Sha256H0, Sha256Pad(data), 0)
    IN  WordBytes(h[1]) \o WordBytes(h[2]) \o WordBytes(h[3]) \o WordBytes(h[4])
        \o WordBytes(h[5]) \o WordBytes(h[6]) \o WordBytes(h[7]) \o WordBytes(h[8])

(***************************************************************************)
(* _get_int64_hash and the decimal form of an int64 in an f-string         *)
(***************************************************************************)

\* A digest of the first 8 characters only: distinct strings with the same
\* beginning get the same identifier.  Collision-freedom must fail on it.
HashOfPrefix(input_string) ==
    SubSeq(Sha256Digest(Utf8Encode(
               SubSeq(input_string, 1,
                      IF Len(input_string) < 8 THEN Len(input_string) ELSE 8))),
           1, 8)

\* int.from_bytes(sha256_hash[:8], byteorder='big', signed=True): the value
\* of the first 8 digest bytes read big-endian in two's complement, kept as
\* those 8 bytes.
_get_int64_hash(input_string) ==
    SubSeq(Sha256Digest(Utf8Encode(input_string)), 1, 8)

\* Whether the int64 held in 8 bytes is negative (sign bit of the first byte).
Int64IsNegative(b) == b[1] >= 128

\* b + 1 on big-endian bytes, modulo 256^Len(b).
RECURSIVE BytesPlusOne(_)
BytesPlusOne(b) ==
    IF b = <<>> THEN <<>>
    ELSE LET n == Len(b)
         IN  IF b[n] < 255 THEN SubSeq(b, 1, n - 1) \o <<b[n] + 1>>
             ELSE BytesPlusOne(SubSeq(b, 1, n - 1)) \o <<0>>

\* The magnitude |v| of the int64 v held in b, as 8 unsigned big-endian bytes.
Int64Magnitude(b) ==
    IF Int64IsNegative(b) THEN BytesPlusOne([i \in 1..Len(b) |-> 255 - b[i]])
    ELSE b

\* Long division of big-endian bytes by 10 with incoming remainder `rem`:
\* <<quotient bytes, remainder>>.
RECURSIVE DivBytesBy10(_, _)
DivBytesBy10(b, rem) ==
    IF b = <<>> THEN <<<<>>, rem>>
    ELSE LET cur  == rem * 256 + Head(b)
             rest == DivBytesBy10(Tail(b), cur % 10)
         IN  <<<<cur \div 10>> \o rest[1], rest[2]>>

\* The decimal digits (as code points) of an unsigned big-endian number,
\* most significant first; empty for zero.
RECURSIVE DecimalDigits(_)
DecimalDigits(b) ==
    IF \A i \in 1..Len(b) : b[i] = 0 THEN <<>>
    ELSE LET qr == DivBytesBy10(b, 0)
         IN  DecimalDigits(qr[1]) \o <<48 + qr[2]>>

\* The 8 bytes read as an unsigned integer (signed=False): no sign, the
\* digits of the bytes as they are.
Int64ToTextUnsigned(b) ==
    LET digits == DecimalDigits(b)
    IN  IF digits = <<>> THEN <<48>> ELSE digits

\* str(v) as an f-string renders the int64 v: "-" for a negative value, then
\* the decimal digits of its magnitude ("0" for zero).
Int64ToText(b) ==
    LET digits == DecimalDigits(Int64Magnitude(b))
    IN  (IF Int64IsNegative(b) THEN <<45>> ELSE <<>>)
        \o (IF digits = <<>> THEN <<48>> ELSE digits)

(***************************************************************************)
(* The caller's data: Node, Relationship, Document, GraphDocument          *)
(***************************************************************************)

\* "Company"
TextCompany == <<67, 111, 109, 112, 97, 110, 121>>

\* "Person"
TextPerson == <<80, 101, 114, 115, 111, 110>>

\* "Acme"
TextAcme == <<65, 99, 109, 101>>

\* "Jane"
TextJane == <<74, 97, 110, 101>>

\* "Bob"
TextBob == <<66, 111, 98>>

\* "EMPLOYS"
TextEMPLOYS == <<69, 77, 80, 76, 79, 89, 83>>

\* "KNOWS"
TextKNOWS == <<75, 78, 79, 87, 83>>

\* "OWNS"
TextOWNS == <<79, 87, 78, 83>>

\* "-", the separator of the f-strings that are hashed.
TextHyphen == <<45>>

\* A JSON value is a tagged tuple of strings; a properties dict is a function
\* from its keys to JSON values.  The empty dict:
EmptyDict == [k \in {} |-> <<>>]

\* dict with d[key] = val set (item assignment on a dict).
DictSet(d, key, val) ==
    [k \in (DOMAIN d) \cup {key} |-> IF k = key THEN val ELSE d[k]]

\* The Node objects the caller holds.  n1 and n3 are two objects with the
\* same (type, id) and different properties; n2 has the default properties
\* (an empty dict); n4 is a Node that is in no document's nodes list.
NodeObjects == {"n1", "n2", "n3", "n4"}

NodeType ==
    [n \in NodeObjects |->
        IF n \in {"n1", "n3"} THEN TextCompany ELSE TextPerson]

NodeId ==
    [n \in NodeObjects |->
        CASE n \in {"n1", "n3"} -> TextAcme
          [] n = "n2" -> TextJane
          [] OTHER -> TextBob]

\* Node.properties of each object when the caller built it.
InitialProperties ==
    [n \in NodeObjects |->
        CASE n = "n1" -> [country |-> <<"str", "USA">>]
          [] n = "n3" -> [country |-> <<"str", "UK">>]
          [] OTHER -> EmptyDict]

\* The GraphDocuments the caller holds: d1 is the spec's scenario (Company
\* Acme EMPLOYS Person Jane), d2 holds the other Company Acme node, d3 holds
\* that node too and a relationship whose source node is in no nodes list.
\* d4 has the nodes of d1 with the EMPLOYS relationship under other
\* properties and a second relationship, OWNS, between the same nodes; d5 is
\* the relationship of d1 without its nodes and d6 the nodes of d1 without
\* its relationship.  d7 has the Company node and a relationship from it to
\* Person Bob, who is in no nodes list.
Documents == {"d1", "d2", "d3", "d4", "d5", "d6", "d7"}

DocNodes ==
    [d \in Documents |->
        CASE d \in {"d1", "d4", "d6"} -> <<"n1", "n2">>
          [] d \in {"d2", "d3"} -> <<"n3">>
          [] d = "d7" -> <<"n1">>
          [] OTHER -> <<>>]

DocRelationships ==
    [d \in Documents |->
        CASE d \in {"d1", "d5"} ->
               <<[source |-> "n1", target |-> "n2", type |-> TextEMPLOYS,
                  properties |-> [years |-> <<"int", "3">>]]>>
          [] d = "d3" ->
               <<[source |-> "n4", target |-> "n3", type |-> TextKNOWS,
                  properties |-> EmptyDict]>>
          [] d = "d4" ->
               <<[source |-> "n1", target |-> "n2", type |-> TextEMPLOYS,
                  properties |-> [years |-> <<"int", "5">>]],
                 [source |-> "n1", target |-> "n2", type |-> TextOWNS,
                  properties |-> EmptyDict]>>
          [] d = "d7" ->
               <<[source |-> "n1", target |-> "n4", type |-> TextKNOWS,
                  properties |-> EmptyDict]>>
          [] OTHER -> <<>>]

\* GraphDocument.source: a Document with page_content and metadata.
DocSource ==
    [d \in Documents |->
        [page_content |-> d, metadata |-> IF d = "d1" THEN "m1" ELSE "m0"]]

\* The lists of GraphDocuments passed to add_graph_documents.
Batches ==
    {<<>>, <<"d1">>, <<"d2">>, <<"d3">>, <<"d1", "d2">>, <<"d2", "d1">>,
     <<"d1", "d1">>}

\* The batches of the calls that are about edges: parallel relationships, a
\* relationship given again with other properties, a relationship before
\* its nodes, a relationship to a node that is never added.
EdgeBatches ==
    {<<"d1">>, <<"d4">>, <<"d1", "d4">>, <<"d4", "d1">>, <<"d5">>, <<"d6">>,
     <<"d5", "d6">>, <<"d6", "d5">>, <<"d7">>}

\* The argument lists of the add_graph_documents calls: every batch with the
\* default flags, and the one-document batch of d1 with every flag combination.
Invocations ==
    [graph_documents : Batches, include_source : {FALSE},
     baseEntityLabel : {FALSE}]
    \cup [graph_documents : {<<"d1">>}, include_source : BOOLEAN,
          baseEntityLabel : BOOLEAN]

(***************************************************************************)
(* Identifiers                                                             *)
(***************************************************************************)

\* The key text without its separator: another key than "{type}-{id}".
NodeKeyTextNoSeparator(type, id) == type \o id

\* f"{node.type}-{node.id}"
NodeKeyText(type, id) == type \o TextHyphen \o id

\* An edge key text without the relationship type.
EdgeKeyTextWithoutType(source_hash_id, type, target_hash_id) ==
    Int64ToText(source_hash_id) \o TextHyphen \o Int64ToText(target_hash_id)

\* f"{source_hash_id}-{rel.type}-{target_hash_id}"
EdgeKeyText(source_hash_id, type, target_hash_id) ==
    Int64ToText(source_hash_id) \o TextHyphen \o type \o TextHyphen
    \o Int64ToText(target_hash_id)

\* The digests of the node keys and edge keys of the caller's data, each
\* computed once by _get_int64_hash.
NodeHashOf ==
    [n \in NodeObjects |-> _get_int64_hash(NodeKeyText(NodeType[n], NodeId[n]))]

AllRelationships ==
    UNION {{DocRelationships[d][i] : i \in DOMAIN DocRelationships[d]} :
              d \in Documents}

EdgeHashOf ==
    [r \in AllRelationships |->
        _get_int64_hash(EdgeKeyText(NodeHashOf[r.source], r.type,
                                    NodeHashOf[r.target]))]

(***************************************************************************)
(* add_graph_documents.insert_data: the mutation builder                   *)
(***************************************************************************)

\* `node.properties or {}`: a non-empty dict is used as it is (the Node's own
\* dict object, so item assignments on it change the Node); an empty dict is
\* falsy and a fresh {} takes its place.
UsesOwnDict(props) == DOMAIN props # {}

\* The properties dict of one node occurrence after the optional item
\* assignments properties["baseEntityLabel"] and properties["source"].
InjectedProperties(props, doc, include_source, baseEntityLabel) ==
    LET withLabel ==
            IF baseEntityLabel
            THEN DictSet(props, "baseEntityLabel", <<"bool", "true">>)
            ELSE props
    IN  IF include_source
        THEN DictSet(withLabel, "source",
                     <<"dict", DocSource[doc].page_content,
                       DocSource[doc].metadata>>)
        ELSE withLabel

\* One iteration of `for node in doc.nodes` on the builder state
\* st = [heap, node_mutations, edge_mutations].
NodeIteration(st, doc, n, include_source, baseEntityLabel) ==
    LET own   == UsesOwnDict(st.heap[n])
        props == InjectedProperties(IF own THEN st.heap[n] ELSE EmptyDict,
                                    doc, include_source, baseEntityLabel)
    IN  [heap |-> IF own THEN [st.heap EXCEPT ![n] = props] ELSE st.heap,
         node_mutations |->
             Append(st.node_mutations, <<NodeHashOf[n], NodeType[n], props>>),
         edge_mutations |-> st.edge_mutations]

\* An iteration with a referential check: a relationship whose target is
\* not among the node rows built so far is left out.
RelationshipIterationChecked(st, rel) ==
    IF \E i \in DOMAIN st.node_mutations :
          st.node_mutations[i][1] = NodeHashOf[rel.target]
    THEN [st EXCEPT !.edge_mutations =
             Append(@, <<NodeHashOf[rel.source], NodeHashOf[rel.target],
                         EdgeHashOf[rel], rel.type, rel.properties>>)]
    ELSE st

\* An iteration whose edge identifier depends on where the relationship
\* stands: before any node of the batch it is the source's identifier.
RelationshipIterationByPosition(st, rel) ==
    [st EXCEPT !.edge_mutations =
        Append(@, <<NodeHashOf[rel.source], NodeHashOf[rel.target],
                    IF st.node_mutations = <<>>
                    THEN NodeHashOf[rel.source] ELSE EdgeHashOf[rel],
                    rel.type, rel.properties>>)]

\* One iteration of `for rel in doc.relationships`.
RelationshipIteration(st, rel) ==
    [st EXCEPT !.edge_mutations =
        Append(@, <<NodeHashOf[rel.source], NodeHashOf[rel.target],
                    EdgeHashOf[rel], rel.type, rel.properties>>)]

RECURSIVE NodeLoop(_, _, _, _, _)
NodeLoop(st, doc, i, include_source, baseEntityLabel) ==
    IF i > Len(DocNodes[doc]) THEN st
    ELSE NodeLoop(NodeIteration(st, doc, DocNodes[doc][i], include_source,
                                baseEntityLabel),
                  doc, i + 1, include_source, baseEntityLabel)

RECURSIVE RelationshipLoop(_, _, _)
RelationshipLoop(st, doc, i) ==
    IF i > Len(DocRelationships[doc]) THEN st
    ELSE RelationshipLoop(RelationshipIteration(st, DocRelationships[doc][i]),
                          doc, i + 1)

RECURSIVE DocumentLoop(_, _, _, _, _)
DocumentLoop(st, graph_documents, i, include_source, baseEntityLabel) ==
    IF i > Len(graph_documents) THEN st
    ELSE DocumentLoop(
             RelationshipLoop(
                 NodeLoop(st, graph_documents[i], 1, include_source,
                          baseEntityLabel),
                 graph_documents[i], 1),
             graph_documents, i + 1, include_source, baseEntityLabel)

\* insert_data up to the two insert_or_update calls: the node and edge
\* mutation lists, and the Node objects' properties as the loops leave them.
insert_data(graph_documents, include_source, baseEntityLabel, heap) ==
    DocumentLoop([heap |-> heap, node_mutations |-> <<>>,
                  edge_mutations |-> <<>>],
                 graph_documents, 1, include_source, baseEntityLabel)

(***************************************************************************)
(* The Spanner database: catalog, tables, DDL statements, commits          *)
(***************************************************************************)

\* The schema objects, by the store's default names (node_table, edge_table,
\* graph_name).
NodeTable == "GraphNode"

EdgeTable == "GraphEdge"

GraphName == "FinGraph"

SchemaObjects == {NodeTable, EdgeTable, GraphName}

NoRows == [k \in {} |-> <<>>]

\* A database that checks names only: a creation is accepted when the name
\* is free and a drop always, whatever depends on the object.
StatementAcceptedByName(cat, stmt) ==
    CASE stmt = "CREATE TABLE GraphNode" -> NodeTable \notin cat
      [] stmt = "CREATE TABLE GraphEdge" -> EdgeTable \notin cat
      [] stmt = "CREATE PROPERTY GRAPH FinGraph" -> GraphName \notin cat
      [] OTHER -> TRUE

\* A database value: [catalog, nodes, edges].
\* Whether the database accepts a DDL statement.  A table is created once;
\* the edge table is interleaved in the node table, which must exist and
\* cannot be dropped before it; the graph is declared over both tables,
\* which cannot be dropped while it exists.  DROP ... IF EXISTS of an absent
\* object succeeds.
StatementAccepted(cat, stmt) ==
    CASE stmt = "CREATE TABLE GraphNode" -> NodeTable \notin cat
      [] stmt = "CREATE TABLE GraphEdge" ->
            EdgeTable \notin cat /\ NodeTable \in cat
      [] stmt = "CREATE PROPERTY GRAPH FinGraph" ->
            GraphName \notin cat /\ NodeTable \in cat /\ EdgeTable \in cat
      [] stmt = "DROP PROPERTY GRAPH IF EXISTS FinGraph" -> TRUE
      [] stmt = "DROP TABLE IF EXISTS GraphEdge" ->
            EdgeTable \in cat => GraphName \notin cat
      [] stmt = "DROP TABLE IF EXISTS GraphNode" ->
            NodeTable \in cat => (GraphName \notin cat /\ EdgeTable \notin cat)

\* The database after an accepted DDL statement: a created table is empty, a
\* dropped table loses its rows.
StatementApplied(db, stmt) ==
    CASE stmt = "CREATE TABLE GraphNode" ->
            [db EXCEPT !.catalog = @ \cup {NodeTable}, !.nodes = NoRows]
      [] stmt = "CREATE TABLE GraphEdge" ->
            [db EXCEPT !.catalog = @ \cup {EdgeTable}, !.edges = NoRows]
      [] stmt = "CREATE PROPERTY GRAPH FinGraph" ->
            [db EXCEPT !.catalog = @ \cup {GraphName}]
      [] stmt = "DROP PROPERTY GRAPH IF EXISTS FinGraph" ->
            [db EXCEPT !.catalog = @ \ {GraphName}]
      [] stmt = "DROP TABLE IF EXISTS GraphEdge" ->
            [db EXCEPT !.catalog = @ \ {EdgeTable}, !.edges = NoRows]
      [] stmt = "DROP TABLE IF EXISTS GraphNode" ->
            [db EXCEPT !.catalog = @ \ {NodeTable}, !.nodes = NoRows]

\* A DDL operation runs its statements in order and stops at the first one
\* the database rejects, or at statement failAt when the backend fails there
\* (failAt = 0: no backend failure); the statements before it stay applied.
\* The result: [db, ok].
RECURSIVE RunDDL(_, _, _, _)
RunDDL(db, stmts, i, failAt) ==
    IF i > Len(stmts) THEN [db |-> db, ok |-> TRUE]
    ELSE IF i = failAt \/ ~StatementAccepted(db.catalog, stmts[i])
         THEN [db |-> db, ok |-> FALSE]
         ELSE RunDDL(StatementApplied(db, stmts[i]), stmts, i + 1, failAt)

\* An upsert that merges the new properties into those of the row that is
\* there instead of replacing the column.
UpsertMerging(rows, key, row) ==
    [k \in (DOMAIN rows) \cup {key} |->
        IF k # key THEN rows[k]
        ELSE IF key \notin DOMAIN rows THEN row
        ELSE [label |-> row.label,
              properties |->
                  [p \in (DOMAIN rows[key].properties)
                             \cup (DOMAIN row.properties) |->
                      IF p \in DOMAIN row.properties THEN row.properties[p]
                      ELSE rows[key].properties[p]]]]

\* An insert that leaves a row that is there as it is: the first write wins.
UpsertKeepsExisting(rows, key, row) ==
    [k \in (DOMAIN rows) \cup {key} |->
        IF k \in DOMAIN rows THEN rows[k] ELSE row]

\* insert_or_update of one row: written under its primary key, replacing the
\* columns of a row that is there.
Upsert(rows, key, row) ==
    [k \in (DOMAIN rows) \cup {key} |-> IF k = key THEN row ELSE rows[k]]

\* The two upserts issued whether their lists are empty or not.
BufferedUnconditionally(built) ==
    <<[op |-> "insert_or_update", table |-> NodeTable,
       values |-> built.node_mutations],
      [op |-> "insert_or_update", table |-> EdgeTable,
       values |-> built.edge_mutations]>>

\* The same mutations as plain inserts, which a row under the same key
\* makes fail.
BufferedInserts(built) ==
    (IF built.node_mutations # <<>>
     THEN <<[op |-> "insert", table |-> NodeTable,
             values |-> built.node_mutations]>>
     ELSE <<>>)
    \o (IF built.edge_mutations # <<>>
        THEN <<[op |-> "insert", table |-> EdgeTable,
                values |-> built.edge_mutations]>>
        ELSE <<>>)

\* The buffered mutations of insert_data: the node upsert if node_mutations
\* is non-empty, then the edge upsert if edge_mutations is non-empty.
BufferedMutations(built) ==
    (IF built.node_mutations # <<>>
     THEN <<[op |-> "insert_or_update", table |-> NodeTable,
             values |-> built.node_mutations]>>
     ELSE <<>>)
    \o (IF built.edge_mutations # <<>>
        THEN <<[op |-> "insert_or_update", table |-> EdgeTable,
                values |-> built.edge_mutations]>>
        ELSE <<>>)

\* Whether the database accepts the write of one row: its table exists, an
\* "insert" finds no row under the key, and an edge row finds its parent row
\* (the edge table is INTERLEAVE IN PARENT the node table on id).
RowAccepted(db, m, key) ==
    /\ m.table \in db.catalog
    /\ m.op = "insert" =>
          key \notin DOMAIN (IF m.table = NodeTable THEN db.nodes ELSE db.edges)
    /\ m.table = EdgeTable => key[1] \in DOMAIN db.nodes

RowKey(m, i) ==
    IF m.table = NodeTable THEN m.values[i][1]
    ELSE <<m.values[i][1], m.values[i][2], m.values[i][3]>>

\* A write that skips a row whose key an earlier row of the same mutation
\* has: within a mutation the first occurrence wins.
RowWrittenFirstWins(db, m, i) ==
    IF \E j \in 1..(i - 1) : RowKey(m, j) = RowKey(m, i) THEN db
    ELSE IF m.table = NodeTable
    THEN [db EXCEPT !.nodes =
             Upsert(@, RowKey(m, i), [label |-> m.values[i][2],
                                      properties |-> m.values[i][3]])]
    ELSE [db EXCEPT !.edges =
             Upsert(@, RowKey(m, i), [label |-> m.values[i][4],
                                      properties |-> m.values[i][5]])]

RowWritten(db, m, i) ==
    IF m.table = NodeTable
    THEN [db EXCEPT !.nodes =
             Upsert(@, RowKey(m, i), [label |-> m.values[i][2],
                                      properties |-> m.values[i][3]])]
    ELSE [db EXCEPT !.edges =
             Upsert(@, RowKey(m, i), [label |-> m.values[i][4],
                                      properties |-> m.values[i][5]])]

\* The rows of one mutation written in list order, up to the first row the
\* database rejects.  The result: [db, ok].
RECURSIVE WriteRows(_, _, _)
WriteRows(db, m, i) ==
    IF i > Len(m.values) THEN [db |-> db, ok |-> TRUE]
    ELSE IF ~RowAccepted(db, m, RowKey(m, i)) THEN [db |-> db, ok |-> FALSE]
    ELSE WriteRows(RowWritten(db, m, i), m, i + 1)

\* The buffered mutations written in order.
RECURSIVE WriteMutations(_, _, _)
WriteMutations(w, buffered, i) ==
    IF i > Len(buffered) \/ ~w.ok THEN w
    ELSE WriteMutations(WriteRows(w.db, buffered[i], 1), buffered, i + 1)

\* A commit without atomicity: the rows written before the rejected one stay.
CommitKeepsWrites(db, written, backendFails) ==
    IF backendFails THEN [db |-> db, ok |-> FALSE] ELSE written

\* A commit is all or nothing: the database with every mutation written, or
\* the database as it was when a row is rejected or the backend fails.
CommitOutcome(db, written, backendFails) ==
    IF backendFails \/ ~written.ok THEN [db |-> db, ok |-> FALSE]
    ELSE written

\* run_in_transaction(insert_data): the two upserts are buffered in one
\* transaction and committed together.  The result: [db, ok].
CommitResult(db, buffered, backendFails) ==
    CommitOutcome(db, WriteMutations([db |-> db, ok |-> TRUE], buffered, 1),
                  backendFails)

\* The rows of a table as a list in primary-key order needs an order on
\* int64 values held as bytes.
RECURSIVE BytesLess(_, _)
BytesLess(a, b) ==
    IF a = <<>> \/ b = <<>> THEN FALSE
    ELSE IF Head(a) # Head(b) THEN Head(a) < Head(b)
    ELSE BytesLess(Tail(a), Tail(b))

Int64Less(a, b) ==
    IF Int64IsNegative(a) # Int64IsNegative(b) THEN Int64IsNegative(a)
    ELSE BytesLess(a, b)

\* The edge keys <<id, dest_id, edge_id>> of S with the given id and dest_id,
\* as a list in the order of edge_id.
RECURSIVE EdgeKeysInOrder(_)
EdgeKeysInOrder(S) ==
    IF S = {} THEN <<>>
    ELSE LET first == CHOOSE k \in S : \A j \in S : ~Int64Less(j[3], k[3])
         IN  <<first>> \o EdgeKeysInOrder(S \ {first})

\* The statements the callers run through query().
\*   node: SELECT label, properties FROM GraphNode WHERE id = ...
\*   edge: SELECT label, properties FROM GraphEdge WHERE id = ... AND dest_id = ...
Statements ==
    {[table |-> NodeTable, id |-> NodeHashOf[n], dest_id |-> <<>>] :
        n \in {"n1", "n2"}}
    \cup {[table |-> EdgeTable, id |-> NodeHashOf[r.source],
           dest_id |-> NodeHashOf[r.target]] : r \in AllRelationships}

FieldNames == <<"label", "properties">>

\* snapshot.execute_sql(query): the result rows, each a tuple of the selected
\* columns.
ResultRows(db, stmt) ==
    IF stmt.table = NodeTable
    THEN IF stmt.id \in DOMAIN db.nodes
         THEN <<<<db.nodes[stmt.id].label, db.nodes[stmt.id].properties>>>>
         ELSE <<>>
    ELSE LET keys == EdgeKeysInOrder({k \in DOMAIN db.edges :
                                         k[1] = stmt.id /\ k[2] = stmt.dest_id})
         IN  [i \in DOMAIN keys |->
                 <<db.edges[keys[i]].label, db.edges[keys[i]].properties>>]

\* A pairing of the field names with the row's values in reverse order.
ZipDictReversed(names, row) ==
    [k \in {names[i] : i \in DOMAIN names} |->
        row[Len(row) + 1 - (CHOOSE i \in DOMAIN names : names[i] = k)]]

\* dict(zip(field_names, row))
ZipDict(names, row) ==
    LET n == IF Len(names) < Len(row) THEN Len(names) ELSE Len(row)
    IN  [k \in {names[i] : i \in 1..n} |->
            row[CHOOSE i \in 1..n :
                    names[i] = k /\ \A j \in (i + 1)..n : names[j] # k]]

\* query(): [] for no rows, else one dict per row.
QueryResults(rows) ==
    IF rows = <<>> THEN <<>>
    ELSE [i \in DOMAIN rows |-> ZipDict(FieldNames, rows[i])]

(***************************************************************************)
(* The store's calls                                                       *)
(***************************************************************************)

VARIABLES
    db_catalog,       \* the schema objects that exist in the database
    node_rows,        \* the node table: id -> [label, properties]
    edge_rows,        \* the edge table: <<id, dest_id, edge_id>> -> [label, properties]
    ddl_queue,        \* the DDL operations submitted and not yet run
    ddl_result,       \* per store: the outcome of the operation it waits for
    obj_properties,   \* Node.properties of each of the caller's Node objects
    pc,               \* per store: where its current call stands
    call,             \* per store: its current (or last) call
    existing_tables,  \* per store: existing_tables of _create_or_verify_schema
    query_result,     \* per store: what its last query() returned
    hash_calls,       \* the _get_int64_hash calls made directly, with results
    tf_call,          \* the process_documents call of a transformer
    results,          \* results of process_documents: GraphDocuments so far
    responses         \* what the model gave for each document processed

vars ==
    <<db_catalog, node_rows, edge_rows, ddl_queue, ddl_result, obj_properties,
      pc, call, existing_tables, query_result, hash_calls,
      tf_call, results, responses>>

Database == [catalog |-> db_catalog, nodes |-> node_rows, edges |-> edge_rows]

\* The DDL operations whose waiter gave up (op.result(timeout=200) timed out)
\* that the database may hold at a time.
MaxAbandoned == 1

NoArguments ==
    [graph_documents |-> <<>>, include_source |-> FALSE,
     baseEntityLabel |-> FALSE]

NoSnapshot == [nodes |-> NoRows, edges |-> NoRows, heap |-> <<>>]

\* The record of a call.  op: "init", "refresh", "add", "cleanup", "query";
\* outcome: "running", then "returned" or "raised"; submitted: the
\* ddl_statements of its update_ddl calls, in order; seen: the schema objects
\* its catalog queries found; transactions: its run_in_transaction calls;
\* committed: whether its transaction was committed; fault: whether a backend
\* failure hit it; after_cleanup: whether it is the call right after a
\* cleanup() that no backend failure hit; before: the tables and the Node
\* objects' properties as run_in_transaction found them; statement: the
\* statement of a query().
NoCall ==
    [op |-> "none", args |-> NoArguments, outcome |-> "none",
     submitted |-> <<>>, seen |-> {}, transactions |-> 0, committed |-> FALSE,
     fault |-> FALSE, after_cleanup |-> FALSE, before |-> NoSnapshot,
     statement |-> <<>>, interfered |-> FALSE]

\* Between calls the record keeps only whether the last call was a cleanup()
\* that no backend failure hit.
Between(r) ==
    [NoCall EXCEPT !.op = IF r.op = "cleanup" /\ ~r.fault
                          THEN "cleanup" ELSE "none"]

NewCall(op, args, last) ==
    [NoCall EXCEPT !.op = op, !.args = args, !.outcome = "running",
                   !.after_cleanup = (last.op = "cleanup")]

Returned(r) == [r EXCEPT !.outcome = "returned"]

Raised(r) == [r EXCEPT !.outcome = "raised"]

Faulted(r, hit) == [r EXCEPT !.fault = @ \/ hit]

\* Where a call goes once _create_or_verify_schema has returned:
\* add_graph_documents goes on to run_in_transaction, __init__ and
\* refresh_schema return.  <<pc, call record>>.
AfterSchema(r) ==
    IF r.op = "add" THEN <<"txn", r>> ELSE <<"done", Returned(r)>>

\* Schema verification without its handler: the error reaches the caller.
OnSchemaErrorRaises(r) == <<"done", Raised(r)>>

\* `except Exception as e: print(...)` of _create_or_verify_schema: the error
\* is caught and the method returns.
OnSchemaError(r) == AfterSchema(r)

\* cleanup without its handler.
OnCleanupErrorRaises(r) == <<"done", Raised(r)>>

\* `except Exception as e: pass` of cleanup: the error is dropped and cleanup
\* returns.
OnCleanupError(r) == <<"done", Returned(r)>>

\* add_graph_documents with a handler that drops the transaction's exception.
OnTransactionErrorDropped(r) == <<"done", Returned(r)>>

\* add_graph_documents has no handler around run_in_transaction: the
\* exception reaches the caller.
OnTransactionError(r) == <<"done", Raised(r)>>

\* query has no handler around the snapshot either.
OnQueryError(r) == <<"done", Raised(r)>>

\* Schema verification that drops the tables and creates them anew.
TableDdlsRecreate(existing) ==
    <<"DROP TABLE IF EXISTS GraphEdge", "DROP TABLE IF EXISTS GraphNode",
      "CREATE TABLE GraphNode", "CREATE TABLE GraphEdge">>

\* Table creation that ignores existing_tables.
TableDdlsUnconditional(existing) ==
    <<"CREATE TABLE GraphNode", "CREATE TABLE GraphEdge">>

\* Table creation that leaves out the edge table.
TableDdlsNodeOnly(existing) ==
    IF NodeTable \notin existing THEN <<"CREATE TABLE GraphNode">> ELSE <<>>

\* table_ddls: the CREATE TABLE statements for the tables not found.
table_ddls(existing) ==
    (IF NodeTable \notin existing THEN <<"CREATE TABLE GraphNode">> ELSE <<>>)
    \o (IF EdgeTable \notin existing THEN <<"CREATE TABLE GraphEdge">> ELSE <<>>)

graph_ddl == "CREATE PROPERTY GRAPH FinGraph"

\* The drops in the order of creation: the node table first.
CleanupCreationOrder ==
    <<"DROP TABLE IF EXISTS GraphNode",
      "DROP TABLE IF EXISTS GraphEdge",
      "DROP PROPERTY GRAPH IF EXISTS FinGraph">>

\* ddl_statements of cleanup.
cleanup_ddl_statements ==
    <<"DROP PROPERTY GRAPH IF EXISTS FinGraph",
      "DROP TABLE IF EXISTS GraphEdge",
      "DROP TABLE IF EXISTS GraphNode">>

Stores == DOMAIN pc

Goto(c, to) ==
    /\ pc' = [pc EXCEPT ![c] = to[1]]
    /\ call' = [call EXCEPT ![c] = to[2]]

Init ==
    /\ db_catalog = {}
    /\ node_rows = NoRows
    /\ edge_rows = NoRows
    /\ ddl_queue = <<>>
    /\ ddl_result = [c \in {"s1"} |-> "none"]
    /\ obj_properties = InitialProperties
    /\ pc = [c \in {"s1"} |-> "new"]
    /\ call = [c \in {"s1"} |-> NoCall]
    /\ existing_tables = [c \in {"s1"} |-> {}]
    /\ query_result = [c \in {"s1"} |-> <<>>]
    /\ hash_calls = <<>>
    /\ tf_call = [transformer |-> "none", documents |-> <<>>,
                  outcome |-> "none"]
    /\ results = <<>>
    /\ responses = <<>>

\* SpannerSchemalessGraph(...): __init__ up to its _create_or_verify_schema.
Construct(c) ==
    /\ pc[c] = "new"
    /\ Goto(c, <<"sv_tables", NewCall("init", NoArguments, call[c])>>)
    /\ UNCHANGED <<db_catalog, node_rows, edge_rows, ddl_queue, ddl_result,
                   obj_properties, existing_tables, query_result, hash_calls,
                   tf_call, results, responses>>

RefreshSchema(c) ==
    /\ pc[c] = "idle"
    /\ Goto(c, <<"sv_tables", NewCall("refresh", NoArguments, call[c])>>)
    /\ UNCHANGED <<db_catalog, node_rows, edge_rows, ddl_queue, ddl_result,
                   obj_properties, existing_tables, query_result, hash_calls,
                   tf_call, results, responses>>

\* add_graph_documents without its first line: the call goes straight to
\* run_in_transaction.
AddGraphDocumentsUnverified(c) ==
    /\ pc[c] = "idle"
    /\ \E args \in Invocations :
          Goto(c, <<"txn", NewCall("add", args, call[c])>>)
    /\ UNCHANGED <<db_catalog, node_rows, edge_rows, ddl_queue, ddl_result,
                   obj_properties, existing_tables, query_result, hash_calls,
                   tf_call, results, responses>>

AddGraphDocuments(c) ==
    /\ pc[c] = "idle"
    /\ \E args \in Invocations :
          Goto(c, <<"sv_tables", NewCall("add", args, call[c])>>)
    /\ UNCHANGED <<db_catalog, node_rows, edge_rows, ddl_queue, ddl_result,
                   obj_properties, existing_tables, query_result, hash_calls,
                   tf_call, results, responses>>

\* A store that remembers that it has verified the tables: the catalog is
\* not read again and both tables are taken to exist.
SvQueryTablesCached(c) ==
    /\ pc[c] = "sv_tables"
    /\ \E fails \in BOOLEAN :
          IF fails
          THEN /\ Goto(c, OnSchemaError(Faulted(call[c], TRUE)))
               /\ UNCHANGED existing_tables
          ELSE /\ existing_tables' =
                     [existing_tables EXCEPT ![c] = {NodeTable, EdgeTable}]
               /\ Goto(c, <<"sv_graph",
                            [call[c] EXCEPT !.seen = {NodeTable, EdgeTable}]>>)
    /\ UNCHANGED <<db_catalog, node_rows, edge_rows, ddl_queue, ddl_result,
                   obj_properties, query_result, hash_calls,
                   tf_call, results, responses>>

\* The first catalog query: existing_tables.
SvQueryTables(c) ==
    /\ pc[c] = "sv_tables"
    /\ \E fails \in BOOLEAN :
          IF fails
          THEN /\ Goto(c, OnSchemaError(Faulted(call[c], TRUE)))
               /\ UNCHANGED existing_tables
          ELSE /\ existing_tables' =
                     [existing_tables EXCEPT
                         ![c] = db_catalog \cap {NodeTable, EdgeTable}]
               /\ Goto(c, <<IF table_ddls(db_catalog) # <<>>
                            THEN "sv_update_tables" ELSE "sv_graph",
                            [call[c] EXCEPT
                                !.seen = db_catalog \cap {NodeTable, EdgeTable}]>>)
    /\ UNCHANGED <<db_catalog, node_rows, edge_rows, ddl_queue, ddl_result,
                   obj_properties, query_result, hash_calls,
                   tf_call, results, responses>>

\* update_ddl(ddl_statements): the operation is queued, or the call fails.
Submit(c, stmts, waitAt, onError) ==
    \E fails \in BOOLEAN :
        IF fails
        THEN /\ Goto(c, onError)
             /\ UNCHANGED ddl_queue
        ELSE /\ ddl_queue' = Append(ddl_queue,
                                    [owner |-> c, stmts |-> stmts,
                                     awaited |-> TRUE])
             /\ Goto(c, <<waitAt,
                          [call[c] EXCEPT !.submitted = Append(@, stmts)]>>)

\* The table batch submitted without op_tables.result(): the graph is checked
\* while the batch may still be queued.
SvUpdateTablesNoWait(c) ==
    /\ pc[c] = "sv_update_tables"
    /\ Submit(c, table_ddls(existing_tables[c]), "sv_graph",
              OnSchemaError(Faulted(call[c], TRUE)))
    /\ UNCHANGED <<db_catalog, node_rows, edge_rows, ddl_result,
                   obj_properties, existing_tables, query_result, hash_calls,
                   tf_call, results, responses>>

SvUpdateTables(c) ==
    /\ pc[c] = "sv_update_tables"
    /\ Submit(c, table_ddls(existing_tables[c]), "sv_wait_tables",
              OnSchemaError(Faulted(call[c], TRUE)))
    /\ UNCHANGED <<db_catalog, node_rows, edge_rows, ddl_result,
                   obj_properties, existing_tables, query_result, hash_calls,
                   tf_call, results, responses>>

\* op_tables.result(): waits until the operation has run.
SvWaitTables(c) ==
    /\ pc[c] = "sv_wait_tables"
    /\ ddl_result[c] # "none"
    /\ ddl_result' = [ddl_result EXCEPT ![c] = "none"]
    /\ Goto(c, IF ddl_result[c] = "ok" THEN <<"sv_graph", call[c]>>
               ELSE OnSchemaError(call[c]))
    /\ UNCHANGED <<db_catalog, node_rows, edge_rows, ddl_queue,
                   obj_properties, existing_tables, query_result, hash_calls,
                   tf_call, results, responses>>

\* The graph query without the creation that follows a miss: the method
\* returns whether the graph is there or not.
SvQueryGraphOnly(c) ==
    /\ pc[c] = "sv_graph"
    /\ \E fails \in BOOLEAN :
          IF fails
          THEN Goto(c, OnSchemaError(Faulted(call[c], TRUE)))
          ELSE Goto(c, AfterSchema([call[c] EXCEPT
                                       !.seen = @ \cup ({GraphName}
                                                        \cap db_catalog)]))
    /\ UNCHANGED <<db_catalog, node_rows, edge_rows, ddl_queue, ddl_result,
                   obj_properties, existing_tables, query_result, hash_calls,
                   tf_call, results, responses>>

\* The second catalog query: the property graph.
SvQueryGraph(c) ==
    /\ pc[c] = "sv_graph"
    /\ \E fails \in BOOLEAN :
          IF fails
          THEN Goto(c, OnSchemaError(Faulted(call[c], TRUE)))
          ELSE IF GraphName \in db_catalog
               THEN Goto(c, AfterSchema([call[c] EXCEPT
                                            !.seen = @ \cup {GraphName}]))
               ELSE Goto(c, <<"sv_update_graph", call[c]>>)
    /\ UNCHANGED <<db_catalog, node_rows, edge_rows, ddl_queue, ddl_result,
                   obj_properties, existing_tables, query_result, hash_calls,
                   tf_call, results, responses>>

SvUpdateGraph(c) ==
    /\ pc[c] = "sv_update_graph"
    /\ Submit(c, <<graph_ddl>>, "sv_wait_graph",
              OnSchemaError(Faulted(call[c], TRUE)))
    /\ UNCHANGED <<db_catalog, node_rows, edge_rows, ddl_result,
                   obj_properties, existing_tables, query_result, hash_calls,
                   tf_call, results, responses>>

\* op_graph.result() outside the try: a failed graph creation reaches the
\* caller.
SvWaitGraphRaises(c) ==
    /\ pc[c] = "sv_wait_graph"
    /\ ddl_result[c] # "none"
    /\ ddl_result' = [ddl_result EXCEPT ![c] = "none"]
    /\ Goto(c, IF ddl_result[c] = "ok" THEN AfterSchema(call[c])
               ELSE <<"done", Raised(call[c])>>)
    /\ UNCHANGED <<db_catalog, node_rows, edge_rows, ddl_queue,
                   obj_properties, existing_tables, query_result, hash_calls,
                   tf_call, results, responses>>

\* op_graph.result()
SvWaitGraph(c) ==
    /\ pc[c] = "sv_wait_graph"
    /\ ddl_result[c] # "none"
    /\ ddl_result' = [ddl_result EXCEPT ![c] = "none"]
    /\ Goto(c, IF ddl_result[c] = "ok" THEN AfterSchema(call[c])
               ELSE OnSchemaError(call[c]))
    /\ UNCHANGED <<db_catalog, node_rows, edge_rows, ddl_queue,
                   obj_properties, existing_tables, query_result, hash_calls,
                   tf_call, results, responses>>

\* The step of run_in_transaction once insert_data has built its mutations
\* and the commit has its result.
Transacted(c, built, res, backendFails) ==
    /\ obj_properties' = built.heap
    /\ node_rows' = res.db.nodes
    /\ edge_rows' = res.db.edges
    /\ Goto(c, IF res.ok
               THEN <<"done",
                      Returned([call[c] EXCEPT
                                   !.transactions = @ + 1, !.committed = TRUE,
                                   !.before = [nodes |-> node_rows,
                                               edges |-> edge_rows,
                                               heap |-> obj_properties]])>>
               ELSE OnTransactionError(
                        Faulted([call[c] EXCEPT
                                    !.transactions = @ + 1,
                                    !.before = [nodes |-> node_rows,
                                                edges |-> edge_rows,
                                                heap |-> obj_properties]],
                                backendFails)))

Committing(c, built, backendFails) ==
    Transacted(c, built,
               CommitResult(Database, BufferedMutations(built), backendFails),
               backendFails)

\* self._database.run_in_transaction(insert_data)
RunInTransaction(c) ==
    /\ pc[c] = "txn"
    /\ \E backendFails \in BOOLEAN :
          Committing(c, insert_data(call[c].args.graph_documents,
                                    call[c].args.include_source,
                                    call[c].args.baseEntityLabel,
                                    obj_properties),
                     backendFails)
    /\ UNCHANGED <<db_catalog, ddl_queue, ddl_result, existing_tables,
                   query_result, hash_calls,
                   tf_call, results, responses>>

\* cleanup() up to its update_ddl.
Cleanup(c) ==
    /\ pc[c] = "idle"
    /\ Goto(c, <<"cl_update",
                 [NewCall("cleanup", NoArguments, call[c])
                     EXCEPT !.before = [nodes |-> node_rows,
                                        edges |-> edge_rows,
                                        heap |-> obj_properties]]>>)
    /\ UNCHANGED <<db_catalog, node_rows, edge_rows, ddl_queue, ddl_result,
                   obj_properties, existing_tables, query_result, hash_calls,
                   tf_call, results, responses>>

ClUpdate(c) ==
    /\ pc[c] = "cl_update"
    /\ Submit(c, cleanup_ddl_statements, "cl_wait",
              OnCleanupError(Faulted(call[c], TRUE)))
    /\ UNCHANGED <<db_catalog, node_rows, edge_rows, ddl_result,
                   obj_properties, existing_tables, query_result, hash_calls,
                   tf_call, results, responses>>

\* op.result(timeout=200): the operation's outcome once it has run.
ClWait(c) ==
    /\ pc[c] = "cl_wait"
    /\ ddl_result[c] # "none"
    /\ ddl_result' = [ddl_result EXCEPT ![c] = "none"]
    /\ Goto(c, IF ddl_result[c] = "ok" THEN <<"done", Returned(call[c])>>
               ELSE OnCleanupError(call[c]))
    /\ UNCHANGED <<db_catalog, node_rows, edge_rows, ddl_queue,
                   obj_properties, existing_tables, query_result, hash_calls,
                   tf_call, results, responses>>

\* op.result(timeout=200) times out: the operation stays queued with nobody
\* waiting for it.
ClTimeout(c) ==
    /\ pc[c] = "cl_wait"
    /\ ddl_result[c] = "none"
    /\ Cardinality({i \in DOMAIN ddl_queue : ~ddl_queue[i].awaited})
           < MaxAbandoned
    /\ ddl_queue' = [i \in DOMAIN ddl_queue |->
                        IF ddl_queue[i].owner = c
                        THEN [ddl_queue[i] EXCEPT !.awaited = FALSE]
                        ELSE ddl_queue[i]]
    /\ Goto(c, OnCleanupError(Faulted(call[c], TRUE)))
    /\ UNCHANGED <<db_catalog, node_rows, edge_rows, ddl_result,
                   obj_properties, existing_tables, query_result, hash_calls,
                   tf_call, results, responses>>

\* query(statement)
Query(c) ==
    /\ pc[c] = "idle"
    /\ \E stmt \in Statements, fails \in BOOLEAN :
          IF fails \/ stmt.table \notin db_catalog
          THEN /\ Goto(c, OnQueryError(
                              Faulted([NewCall("query", NoArguments, call[c])
                                          EXCEPT !.statement = stmt],
                                      fails)))
               /\ UNCHANGED query_result
          ELSE /\ Goto(c, <<"done",
                            Returned([NewCall("query", NoArguments, call[c])
                                         EXCEPT !.statement = stmt])>>)
               /\ query_result' =
                      [query_result EXCEPT
                          ![c] = QueryResults(ResultRows(Database, stmt))]
    /\ UNCHANGED <<db_catalog, node_rows, edge_rows, ddl_queue, ddl_result,
                   obj_properties, existing_tables, hash_calls,
                   tf_call, results, responses>>

\* The call is over: the caller has its result or its exception.
Return(c) ==
    /\ pc[c] = "done"
    /\ Goto(c, <<"idle", Between(call[c])>>)
    /\ existing_tables' = [existing_tables EXCEPT ![c] = {}]
    /\ query_result' = [query_result EXCEPT ![c] = <<>>]
    /\ UNCHANGED <<db_catalog, node_rows, edge_rows, ddl_queue, ddl_result,
                   obj_properties, hash_calls,
                   tf_call, results, responses>>

\* The positions of a call inside _create_or_verify_schema.
InSchemaVerification ==
    {"sv_tables", "sv_update_tables", "sv_wait_tables", "sv_graph",
     "sv_update_graph", "sv_wait_graph"}

\* The database runs the DDL operation at the head of its queue and reports
\* the outcome to the store that waits for it.  An operation nobody waits
\* for, the cleanup() whose wait timed out, runs concurrently with whatever
\* call is in its schema verification then.
Ran(op, res, failAt) ==
    /\ db_catalog' = res.db.catalog
    /\ node_rows' = res.db.nodes
    /\ edge_rows' = res.db.edges
    /\ IF op.awaited
       THEN /\ ddl_result' = [ddl_result EXCEPT
                                 ![op.owner] = IF res.ok THEN "ok" ELSE "error"]
            /\ call' = [call EXCEPT ![op.owner] = Faulted(@, failAt # 0)]
       ELSE /\ call' = [c \in DOMAIN call |->
                           IF pc[c] \in InSchemaVerification
                           THEN [call[c] EXCEPT !.interfered = TRUE]
                           ELSE call[c]]
            /\ UNCHANGED ddl_result

BackendRunDDL ==
    /\ ddl_queue # <<>>
    /\ \E failAt \in 0..Len(Head(ddl_queue).stmts) :
          Ran(Head(ddl_queue),
              RunDDL(Database, Head(ddl_queue).stmts, 1, failAt), failAt)
    /\ ddl_queue' = Tail(ddl_queue)
    /\ UNCHANGED <<obj_properties, pc, existing_tables, query_result, hash_calls,
                   tf_call, results, responses>>

Next ==
    \/ \E c \in Stores : Construct(c)
    \/ \E c \in Stores : RefreshSchema(c)
    \/ \E c \in Stores : AddGraphDocuments(c)
    \/ \E c \in Stores : Cleanup(c)
    \/ \E c \in Stores : Query(c)
    \/ \E c \in Stores : SvQueryTables(c)
    \/ \E c \in Stores : SvUpdateTables(c)
    \/ \E c \in Stores : SvWaitTables(c)
    \/ \E c \in Stores : SvQueryGraph(c)
    \/ \E c \in Stores : SvUpdateGraph(c)
    \/ \E c \in Stores : SvWaitGraph(c)
    \/ \E c \in Stores : RunInTransaction(c)
    \/ \E c \in Stores : ClUpdate(c)
    \/ \E c \in Stores : ClWait(c)
    \/ \E c \in Stores : ClTimeout(c)
    \/ \E c \in Stores : Return(c)
    \/ BackendRunDDL

Spec == Init /\ [][Next]_vars

\* add_graph_documents on one of the edge batches, with the default flags.
AddEdgeDocuments(c) ==
    /\ pc[c] = "idle"
    /\ \E docs \in EdgeBatches :
          Goto(c, <<"sv_tables",
                    NewCall("add", [NoArguments EXCEPT !.graph_documents = docs],
                            call[c])>>)
    /\ UNCHANGED <<db_catalog, node_rows, edge_rows, ddl_queue, ddl_result,
                   obj_properties, existing_tables, query_result, hash_calls,
                   tf_call, results, responses>>

\* A store that is constructed and then adds edge batches and runs queries.
NextEdges ==
    \/ \E c \in Stores : Construct(c)
    \/ \E c \in Stores : AddEdgeDocuments(c)
    \/ \E c \in Stores : Query(c)
    \/ \E c \in Stores : SvQueryTables(c)
    \/ \E c \in Stores : SvUpdateTables(c)
    \/ \E c \in Stores : SvWaitTables(c)
    \/ \E c \in Stores : SvQueryGraph(c)
    \/ \E c \in Stores : SvUpdateGraph(c)
    \/ \E c \in Stores : SvWaitGraph(c)
    \/ \E c \in Stores : RunInTransaction(c)
    \/ \E c \in Stores : Return(c)
    \/ BackendRunDDL

SpecEdges == Init /\ [][NextEdges]_vars


(***************************************************************************)
(* Two store objects on one database                                       *)
(***************************************************************************)

\* The argument lists of the calls of two concurrent callers: d1 with
\* baseEntityLabel, d2 with the default flags; both write the row of
\* Company Acme.
ConcurrentInvocations ==
    {[graph_documents |-> <<"d1">>, include_source |-> FALSE,
      baseEntityLabel |-> TRUE],
     [graph_documents |-> <<"d2">>, include_source |-> FALSE,
      baseEntityLabel |-> FALSE]}

\* Two SpannerSchemalessGraph objects are about to be constructed on a
\* database without the schema.
InitConcurrent ==
    /\ db_catalog = {}
    /\ node_rows = NoRows
    /\ edge_rows = NoRows
    /\ ddl_queue = <<>>
    /\ ddl_result = [c \in {"s1", "s2"} |-> "none"]
    /\ obj_properties = InitialProperties
    /\ pc = [c \in {"s1", "s2"} |-> "new"]
    /\ call = [c \in {"s1", "s2"} |-> NoCall]
    /\ existing_tables = [c \in {"s1", "s2"} |-> {}]
    /\ query_result = [c \in {"s1", "s2"} |-> <<>>]
    /\ hash_calls = <<>>
    /\ tf_call = [transformer |-> "none", documents |-> <<>>,
                  outcome |-> "none"]
    /\ results = <<>>
    /\ responses = <<>>

AddConcurrently(c) ==
    /\ pc[c] = "idle"
    /\ \E args \in ConcurrentInvocations :
          Goto(c, <<"sv_tables", NewCall("add", args, call[c])>>)
    /\ UNCHANGED <<db_catalog, node_rows, edge_rows, ddl_queue, ddl_result,
                   obj_properties, existing_tables, query_result, hash_calls,
                   tf_call, results, responses>>

\* The database applies the first statement of the DDL operation at the head
\* of its queue; the operation goes on with the rest, and the other clients
\* see the catalog in between.
BackendRunStatement ==
    /\ ddl_queue # <<>>
    /\ Len(Head(ddl_queue).stmts) > 1
    /\ StatementAccepted(db_catalog, Head(ddl_queue).stmts[1])
    /\ db_catalog' = StatementApplied(Database, Head(ddl_queue).stmts[1]).catalog
    /\ node_rows' = StatementApplied(Database, Head(ddl_queue).stmts[1]).nodes
    /\ edge_rows' = StatementApplied(Database, Head(ddl_queue).stmts[1]).edges
    /\ ddl_queue' = <<[Head(ddl_queue) EXCEPT !.stmts = Tail(@)]>>
                        \o Tail(ddl_queue)
    /\ UNCHANGED <<ddl_result, obj_properties, pc, call, existing_tables,
                   query_result, hash_calls,
                   tf_call, results, responses>>

NextConcurrent ==
    \/ \E c \in Stores : Construct(c)
    \/ \E c \in Stores : AddConcurrently(c)
    \/ \E c \in Stores : SvQueryTables(c)
    \/ \E c \in Stores : SvUpdateTables(c)
    \/ \E c \in Stores : SvWaitTables(c)
    \/ \E c \in Stores : SvQueryGraph(c)
    \/ \E c \in Stores : SvUpdateGraph(c)
    \/ \E c \in Stores : SvWaitGraph(c)
    \/ \E c \in Stores : RunInTransaction(c)
    \/ \E c \in Stores : Return(c)
    \/ BackendRunStatement
    \/ BackendRunDDL

SpecConcurrent == InitConcurrent /\ [][NextConcurrent]_vars

(***************************************************************************)
(* A store whose schema another client drops                               *)
(***************************************************************************)

\* The store has been constructed and has verified the schema: both tables
\* and the graph exist and no call is running.
InitVerified ==
    /\ db_catalog = SchemaObjects
    /\ node_rows = NoRows
    /\ edge_rows = NoRows
    /\ ddl_queue = <<>>
    /\ ddl_result = [c \in {"s1"} |-> "none"]
    /\ obj_properties = InitialProperties
    /\ pc = [c \in {"s1"} |-> "idle"]
    /\ call = [c \in {"s1"} |-> NoCall]
    /\ existing_tables = [c \in {"s1"} |-> {}]
    /\ query_result = [c \in {"s1"} |-> <<>>]
    /\ hash_calls = <<>>
    /\ tf_call = [transformer |-> "none", documents |-> <<>>,
                  outcome |-> "none"]
    /\ results = <<>>
    /\ responses = <<>>

\* Another client calls cleanup(): its DDL operation is queued at the
\* database, and no call of this store waits for it.
OtherClientDrops ==
    /\ Cardinality({i \in DOMAIN ddl_queue : ~ddl_queue[i].awaited})
           < MaxAbandoned
    /\ ddl_queue' = Append(ddl_queue,
                           [owner |-> "other", stmts |-> cleanup_ddl_statements,
                            awaited |-> FALSE])
    /\ UNCHANGED <<db_catalog, node_rows, edge_rows, ddl_result,
                   obj_properties, pc, call, existing_tables, query_result,
                   hash_calls,
                   tf_call, results, responses>>

NextDropped ==
    \/ \E c \in Stores : RefreshSchema(c)
    \/ \E c \in Stores : AddGraphDocuments(c)
    \/ \E c \in Stores : SvQueryTables(c)
    \/ \E c \in Stores : SvUpdateTables(c)
    \/ \E c \in Stores : SvWaitTables(c)
    \/ \E c \in Stores : SvQueryGraph(c)
    \/ \E c \in Stores : SvUpdateGraph(c)
    \/ \E c \in Stores : SvWaitGraph(c)
    \/ \E c \in Stores : RunInTransaction(c)
    \/ \E c \in Stores : Return(c)
    \/ OtherClientDrops
    \/ BackendRunDDL

SpecDropped == InitVerified /\ [][NextDropped]_vars

(***************************************************************************)
(* A database that may never run a DDL operation                           *)
(***************************************************************************)

\* cleanup() called while no operation of an earlier cleanup() is still
\* queued.
CleanupOnQuietQueue(c) ==
    /\ \A i \in DOMAIN ddl_queue : ddl_queue[i].awaited
    /\ Cleanup(c)

NextWaits ==
    \/ \E c \in Stores : Construct(c)
    \/ \E c \in Stores : RefreshSchema(c)
    \/ \E c \in Stores : CleanupOnQuietQueue(c)
    \/ \E c \in Stores : SvQueryTables(c)
    \/ \E c \in Stores : SvUpdateTables(c)
    \/ \E c \in Stores : SvWaitTables(c)
    \/ \E c \in Stores : SvQueryGraph(c)
    \/ \E c \in Stores : SvUpdateGraph(c)
    \/ \E c \in Stores : SvWaitGraph(c)
    \/ \E c \in Stores : ClUpdate(c)
    \/ \E c \in Stores : ClWait(c)
    \/ \E c \in Stores : ClTimeout(c)
    \/ \E c \in Stores : Return(c)
    \/ BackendRunDDL

\* The steps of a running call are taken: the interpreter goes on, a wait
\* ends when its result is there, and the wait of cleanup() ends when its
\* timeout expires.  Nothing makes the database run an operation, and nothing
\* makes the caller start a call.
CallsProceed ==
    /\ WF_vars(SvQueryTables("s1"))
    /\ WF_vars(SvUpdateTables("s1"))
    /\ WF_vars(SvWaitTables("s1"))
    /\ WF_vars(SvQueryGraph("s1"))
    /\ WF_vars(SvUpdateGraph("s1"))
    /\ WF_vars(SvWaitGraph("s1"))
    /\ WF_vars(ClUpdate("s1"))
    /\ WF_vars(ClWait("s1"))
    /\ WF_vars(ClTimeout("s1"))

SpecWaits == Init /\ [][NextWaits]_vars /\ CallsProceed
(***************************************************************************)
(* _get_int64_hash called on its own                                       *)
(***************************************************************************)

\* "Company-Acme", "Person-Jane", "Person-Bob": the node keys written out.
TextCompanyAcme == <<67, 111, 109, 112, 97, 110, 121, 45, 65, 99, 109, 101>>

TextPersonJane == <<80, 101, 114, 115, 111, 110, 45, 74, 97, 110, 101>>

TextPersonBob == <<80, 101, 114, 115, 111, 110, 45, 66, 111, 98>>

\* The strings the calls are made on: the node keys and edge keys of the
\* caller's data, and strings next to them (a letter in the other case, a
\* missing last letter, the empty string, the two halves swapped, a
\* two-byte and a three-byte character).
HashInputs ==
    {TextCompanyAcme, TextPersonJane, TextPersonBob}
    \cup {EdgeKeyText(NodeHashOf[r.source], r.type, NodeHashOf[r.target]) :
             r \in AllRelationships}
    \cup {<<>>,
          <<67, 111, 109, 112, 97, 110, 121, 45, 97, 99, 109, 101>>,
          <<67, 111, 109, 112, 97, 110, 121, 45, 65, 99, 109>>,
          <<65, 99, 109, 101, 45, 67, 111, 109, 112, 97, 110, 121>>,
          <<67, 111, 109, 112, 97, 110, 121, 45>>,
          <<67, 111, 109, 112, 97, 110, 121, 45, 65, 99, 109, 233>>,
          <<67, 111, 109, 112, 97, 110, 121, 45, 8364>>}

\* The result of each of these calls, computed once.
HashOf == [s \in HashInputs |-> _get_int64_hash(s)]

\* The store instances that make the calls.
HashCallers == {"s1", "s2"}

\* The number of calls followed.
MaxHashCalls == 2

\* store._get_int64_hash(input_string): the method reads and writes nothing
\* of the store; the caller gets the digest's first 8 bytes.
GetInt64Hash(c, input_string) ==
    /\ Len(hash_calls) < MaxHashCalls
    /\ hash_calls' = Append(hash_calls,
                            [store |-> c, input_string |-> input_string,
                             result |-> HashOf[input_string]])
    /\ UNCHANGED <<db_catalog, node_rows, edge_rows, ddl_queue, ddl_result,
                   obj_properties, pc, call, existing_tables, query_result,
                   tf_call, results, responses>>

NextHash == \E c \in HashCallers, s \in HashInputs : GetInt64Hash(c, s)

SpecHash == Init /\ [][NextHash]_vars

(***************************************************************************)
(* The node identifier of line 123 computed on its own                     *)
(***************************************************************************)

\* Node types and ids with and without the separator in them:
\* "A", "A-B", "Company" and "C", "B-C", "B", "Acme".
KeyTypes == {<<65>>, <<65, 45, 66>>, TextCompany}

KeyIds == {<<67>>, <<66, 45, 67>>, <<66>>, TextAcme}

\* node_id of each (type, id), computed once.
NodeIdOf ==
    [k \in KeyTypes \X KeyIds |-> _get_int64_hash(NodeKeyText(k[1], k[2]))]

\* The number of nodes followed.
MaxKeyCalls == 2

\* node_id = self._get_int64_hash(f"{node.type}-{node.id}") for one node.
NodeIdentifier(c, type, id) ==
    /\ Len(hash_calls) < MaxKeyCalls
    /\ hash_calls' = Append(hash_calls,
                            [store |-> c, type |-> type, id |-> id,
                             input_string |-> NodeKeyText(type, id),
                             result |-> NodeIdOf[<<type, id>>]])
    /\ UNCHANGED <<db_catalog, node_rows, edge_rows, ddl_queue, ddl_result,
                   obj_properties, pc, call, existing_tables, query_result,
                   tf_call, results, responses>>

NextKeys ==
    \E c \in Stores, type \in KeyTypes, id \in KeyIds :
        NodeIdentifier(c, type, id)

SpecKeys == Init /\ [][NextKeys]_vars


(***************************************************************************)
(* The graph transformers: GeminiGraphTransformer and                      *)
(* LangExtractGraphTransformer                                             *)
(***************************************************************************)

\* The JSON objects the model may put in its array.  An object is a function
\* from the keys it has; "properties" is the list of (key, value) pairs of
\* the inner object in the order of the text.
\*   Acme        a node with the properties "Sector" and "sector"
\*   AcmeAgain   the same id under another type, without "properties"
\*   Jane        a node with an empty "properties"
\*   Bob         a node that also has a "target" key
\*   Employs     a relationship Acme -> Jane with the property "value"
\*   Owns        a relationship Acme -> Bob without "properties"
\*   Knows       a relationship Jane -> Acme that also has an "id"
\*   NoType      an object with "id" and nothing else
Item(name) ==
    CASE name = "Acme" ->
             [id |-> TextAcme, type |-> TextCompany,
              properties |->
                  <<<<<<83, 101, 99, 116, 111, 114>>, <<"str", "Software">>>>,
                    <<<<115, 101, 99, 116, 111, 114>>,
                      <<"str", "Utilities">>>>>>]
      [] name = "AcmeAgain" -> [id |-> TextAcme, type |-> TextPerson]
      [] name = "Jane" ->
             [id |-> TextJane, type |-> TextPerson, properties |-> <<>>]
      [] name = "Bob" ->
             [id |-> TextBob, type |-> TextPerson, target |-> TextAcme]
      [] name = "Employs" ->
             [source |-> TextAcme, target |-> TextJane, type |-> TextEMPLOYS,
              properties |->
                  <<<<<<118, 97, 108, 117, 101>>, <<"int", "1650000000">>>>>>]
      [] name = "Owns" ->
             [source |-> TextAcme, target |-> TextBob, type |-> TextOWNS]
      [] name = "Knows" ->
             [id |-> TextKNOWS, source |-> TextJane, target |-> TextAcme,
              type |-> TextKNOWS, properties |-> <<>>]
      [] OTHER -> [id |-> TextBob]

Items ==
    {Item(name) : name \in {"Acme", "AcmeAgain", "Jane", "Bob", "Employs",
                            "Owns", "Knows", "NoType"}}

\* The longest array of the model that is followed.
MaxItems == 3

\* str.lower() on ASCII text.
Lower(text) ==
    [i \in DOMAIN text |->
        IF text[i] >= 65 /\ text[i] <= 90 THEN text[i] + 32 ELSE text[i]]

\* item.get("properties", {}).items()
PropertyItems(item) ==
    IF "properties" \in DOMAIN item THEN item.properties ELSE <<>>

\* {k: v for k, v in pairs}: a later pair with the same key replaces the
\* value of the earlier one.
RECURSIVE DictOfPairs(_)
DictOfPairs(pairs) ==
    IF pairs = <<>> THEN EmptyDict
    ELSE DictSet(DictOfPairs(SubSeq(pairs, 1, Len(pairs) - 1)),
                 pairs[Len(pairs)][1], pairs[Len(pairs)][2])

\* The properties of a Node or Relationship built from an item.  Gemini
\* (lines 68, 83) copies keys and values; LangExtract (lines 123, 138)
\* writes f"prop_{str(k).lower()}" and str(v): "prop_" is 112 114 111 112 95.
ConvertedProperties(t, item) ==
    IF t = "gemini" THEN DictOfPairs(PropertyItems(item))
    ELSE DictOfPairs(
             [i \in DOMAIN PropertyItems(item) |->
                 <<<<112, 114, 111, 112, 95>>
                       \o Lower(PropertyItems(item)[i][1]),
                   <<"str", PropertyItems(item)[i][2][2]>>>>])

\* "source" not in item and "id" in item and "type" in item
IsNodeItem(item) ==
    /\ "source" \notin DOMAIN item
    /\ "id" \in DOMAIN item
    /\ "type" \in DOMAIN item

\* "source" in item and "target" in item and "type" in item
IsRelationshipItem(item) ==
    /\ "source" \in DOMAIN item
    /\ "target" \in DOMAIN item
    /\ "type" \in DOMAIN item

\* Node(id=node_id, type=item["type"], properties={...})
NodeOfItem(t, item) ==
    [id |-> item.id, type |-> item.type,
     properties |-> ConvertedProperties(t, item)]

\* The first loop with every node item appended and node_map[node_id]
\* overwritten: the loop without `if node_id not in node_map`.
RECURSIVE NodePassKeepsAll(_, _)
NodePassKeepsAll(t, graph_data) ==
    IF graph_data = <<>> THEN [nodes |-> <<>>, node_map |-> EmptyDict]
    ELSE LET before == NodePassKeepsAll(t, SubSeq(graph_data, 1,
                                                  Len(graph_data) - 1))
             item == graph_data[Len(graph_data)]
         IN  IF IsNodeItem(item)
             THEN [nodes |-> Append(before.nodes, NodeOfItem(t, item)),
                   node_map |-> DictSet(before.node_map, item.id,
                                        NodeOfItem(t, item))]
             ELSE before

\* The first loop over graph_data (Gemini lines 61-71, LangExtract lines
\* 116-126): nodes and node_map after the items of graph_data.
RECURSIVE NodePass(_, _)
NodePass(t, graph_data) ==
    IF graph_data = <<>> THEN [nodes |-> <<>>, node_map |-> EmptyDict]
    ELSE LET before == NodePass(t, SubSeq(graph_data, 1, Len(graph_data) - 1))
             item == graph_data[Len(graph_data)]
         IN  IF IsNodeItem(item) /\ item.id \notin DOMAIN before.node_map
             THEN [nodes |-> Append(before.nodes, NodeOfItem(t, item)),
                   node_map |-> DictSet(before.node_map, item.id,
                                        NodeOfItem(t, item))]
             ELSE before

\* The second loop (Gemini lines 73-85, LangExtract lines 128-140):
\* node_map.get() of both endpoints, and a Relationship when both are found.
\* A Node object is always true.
RECURSIVE RelationshipPass(_, _, _)
RelationshipPass(t, graph_data, node_map) ==
    IF graph_data = <<>> THEN <<>>
    ELSE LET before == RelationshipPass(t, SubSeq(graph_data, 1,
                                                  Len(graph_data) - 1),
                                        node_map)
             item == graph_data[Len(graph_data)]
         IN  IF /\ IsRelationshipItem(item)
                /\ item.source \in DOMAIN node_map
                /\ item.target \in DOMAIN node_map
             THEN Append(before,
                         [source |-> node_map[item.source],
                          target |-> node_map[item.target],
                          type |-> item.type,
                          properties |-> ConvertedProperties(t, item)])
             ELSE before

\* GraphDocument(nodes=nodes, relationships=relationships, source=document)
\* after the two loops.
GraphDocumentOf(t, graph_data, document) ==
    [nodes |-> NodePass(t, graph_data).nodes,
     relationships |->
         RelationshipPass(t, graph_data, NodePass(t, graph_data).node_map),
     source |-> document]

\* GraphDocument(nodes=[], relationships=[], source=document)
EmptyGraphDocument(document) ==
    [nodes |-> <<>>, relationships |-> <<>>, source |-> document]

\* What the model call gives.  call is "raises" when generate_content or
\* lx.extract raises, and "returns" otherwise; then json says what
\* json.loads makes of the text (response.text,
\* result.extractions[0].extraction_text):
\*   "none"     there is no text (None, an empty text, no extraction)
\*   "invalid"  json.loads raises JSONDecodeError
\*   "number"   a JSON number
\*   "object"   a JSON object with the one key `key` holding the array items
\*   "array"    the array items
Response(model_call, json, key, items) ==
    [call |-> model_call, json |-> json, key |-> key, items |-> items]

\* How _process_single_document ends: with the GraphDocument it returns
\* (raised is "none"), or with the exception that leaves it.
Outcome(raised, graph_document) ==
    [raised |-> raised, graph_document |-> graph_document]

\* GeminiGraphTransformer._process_single_document (lines 38-88).
\*   - generate_content raises: the except clause of line 53 is entered with
\*     the local `response` never assigned, and the f-string of line 54 reads
\*     it: UnboundLocalError leaves the method.
\*   - json.loads raises (JSONDecodeError, or TypeError for a text of None):
\*     the warning is logged and the empty GraphDocument returned.
\*   - a JSON number: `for item in graph_data` of line 61 raises TypeError.
\*   - a JSON object: the loops run over its keys, and neither "extractions"
\*     nor "nodes" holds "id" or "source" as a substring, so nothing is added.
GeminiProcessSingleDocument(document, response) ==
    CASE response.call = "raises" ->
             Outcome("UnboundLocalError", EmptyGraphDocument("none"))
      [] response.json \in {"none", "invalid"} ->
             Outcome("none", EmptyGraphDocument(document))
      [] response.json = "number" ->
             Outcome("TypeError", EmptyGraphDocument("none"))
      [] response.json = "object" ->
             Outcome("none", GraphDocumentOf("gemini", <<>>, document))
      [] OTHER ->
             Outcome("none",
                     GraphDocumentOf("gemini", response.items, document))

\* LangExtractGraphTransformer._process_single_document (lines 74-145).
\* lx.extract is outside the try: what it raises leaves the method.  Without
\* a text, and when json.loads raises JSONDecodeError (nothing was appended
\* yet), the GraphDocument is empty.  graph_data is the "extractions" of a
\* dict (or []), a list itself, and [] for anything else (lines 108-113).
LangExtractProcessSingleDocument(document, response) ==
    CASE response.call = "raises" ->
             Outcome("ModelError", EmptyGraphDocument("none"))
      [] response.json \in {"none", "invalid"} ->
             Outcome("none", GraphDocumentOf("langextract", <<>>, document))
      [] response.json = "array"
           \/ (response.json = "object" /\ response.key = "extractions") ->
             Outcome("none",
                     GraphDocumentOf("langextract", response.items, document))
      [] OTHER ->
             Outcome("none", GraphDocumentOf("langextract", <<>>, document))

\* transformer.process_documents(documents) is called: results = [].
ProcessDocuments(t, docs) ==
    /\ tf_call.outcome = "none"
    /\ tf_call' = [transformer |-> t, documents |-> docs,
                   outcome |-> "running"]
    /\ results' = <<>>
    /\ responses' = <<>>
    /\ UNCHANGED <<db_catalog, node_rows, edge_rows, ddl_queue, ddl_result,
                   obj_properties, pc, call, existing_tables, query_result,
                   hash_calls>>

\* One iteration of the loop of process_documents (Gemini lines 33-35,
\* LangExtract lines 69-71) with the model giving `response`: the
\* GraphDocument is appended to results, or the exception leaves
\* process_documents and the caller gets no list.
ProcessSingleDocument(response) ==
    /\ tf_call.outcome = "running"
    /\ Len(results) < Len(tf_call.documents)
    /\ LET document == tf_call.documents[Len(results) + 1]
           step == IF tf_call.transformer = "gemini"
                   THEN GeminiProcessSingleDocument(document, response)
                   ELSE LangExtractProcessSingleDocument(document, response)
       IN  /\ responses' = Append(responses, response)
           /\ IF step.raised = "none"
              THEN /\ results' = Append(results, step.graph_document)
                   /\ UNCHANGED tf_call
              ELSE /\ tf_call' = [tf_call EXCEPT !.outcome = step.raised]
                   /\ UNCHANGED results
    /\ UNCHANGED <<db_catalog, node_rows, edge_rows, ddl_queue, ddl_result,
                   obj_properties, pc, call, existing_tables, query_result,
                   hash_calls>>

\* return results, after the last document.
ReturnResults ==
    /\ tf_call.outcome = "running"
    /\ Len(results) = Len(tf_call.documents)
    /\ tf_call' = [tf_call EXCEPT !.outcome = "returned"]
    /\ UNCHANGED <<results, responses>>
    /\ UNCHANGED <<db_catalog, node_rows, edge_rows, ddl_queue, ddl_result,
                   obj_properties, pc, call, existing_tables, query_result,
                   hash_calls>>

\* The texts followed for one document: every array of at most MaxItems
\* items, bare and under the key "extractions".
ExtractResponses ==
    {Response("returns", json[1], json[2], graph_data) :
        json \in {<<"array", "">>, <<"object", "extractions">>},
        graph_data \in UNION {[1..n -> Items] : n \in 0..MaxItems}}

\* process_documents([document]) of either transformer with any of these
\* texts.
NextExtract ==
    \/ \E t \in {"gemini", "langextract"}, document \in {"p1", "p2"} :
           ProcessDocuments(t, <<document>>)
    \/ \E response \in ExtractResponses : ProcessSingleDocument(response)
    \/ ReturnResults

SpecExtract == Init /\ [][NextExtract]_vars

\* The longest list of documents that is followed.
MaxDocuments == 2

\* The model's answers followed over several documents: the call raises, no
\* text, a text that is not JSON, a number, an object under another key,
\* and a graph as an array and under "extractions".
ModelResponses ==
    {Response("raises", "none", "", <<>>),
     Response("returns", "none", "", <<>>),
     Response("returns", "invalid", "", <<>>),
     Response("returns", "number", "", <<>>),
     Response("returns", "object", "nodes", <<Item("Acme")>>),
     Response("returns", "array", "",
              <<Item("Acme"), Item("Jane"), Item("Employs")>>),
     Response("returns", "object", "extractions",
              <<Item("Acme"), Item("Owns")>>)}

\* process_documents(documents) of either transformer on a list of at most
\* MaxDocuments of the Documents p1 and p2, with any of the model's answers
\* for each document.
NextTransform ==
    \/ \E t \in {"gemini", "langextract"},
          docs \in UNION {[1..n -> {"p1", "p2"}] : n \in 0..MaxDocuments} :
           ProcessDocuments(t, docs)
    \/ \E response \in ModelResponses : ProcessSingleDocument(response)
    \/ ReturnResults

SpecTransform == Init /\ [][NextTransform]_vars
(***************************************************************************)
(* Properties                                                              *)
(***************************************************************************)

\* The identifiers the caller expects, from the key texts written out.
IdCompanyAcme == _get_int64_hash(TextCompanyAcme)

IdPersonJane == _get_int64_hash(TextPersonJane)

IdPersonBob == _get_int64_hash(TextPersonBob)

ExpectedId ==
    [n \in NodeObjects |->
        CASE NodeType[n] = TextCompany -> IdCompanyAcme
          [] NodeId[n] = TextJane -> IdPersonJane
          [] OTHER -> IdPersonBob]

\* The Node objects of a batch, in document order and node order.
RECURSIVE BatchNodes(_)
BatchNodes(docs) ==
    IF docs = <<>> THEN <<>>
    ELSE DocNodes[Head(docs)] \o BatchNodes(Tail(docs))

\* The relationships of a batch.
BatchRelationships(docs) ==
    UNION {{DocRelationships[docs[i]][j] :
               j \in DOMAIN DocRelationships[docs[i]]} : i \in DOMAIN docs}

SameKey(a, b) == NodeType[a] = NodeType[b] /\ NodeId[a] = NodeId[b]

\* occ[i] is the last node of the list with its (type, id).
IsLast(occ, i) == \A j \in (i + 1)..Len(occ) : ~SameKey(occ[i], occ[j])

NodeStatement(n) ==
    [table |-> NodeTable, id |-> ExpectedId[n], dest_id |-> <<>>]

EdgeStatement(rel) ==
    [table |-> EdgeTable, id |-> ExpectedId[rel.source],
     dest_id |-> ExpectedId[rel.target]]

DefaultFlags(args) == ~args.include_source /\ ~args.baseEntityLabel

\* The step in which store c's run_in_transaction ends, and the one in which
\* it ends with a commit.
TransactionStep(c) == pc[c] = "txn" /\ pc'[c] = "done"

CommitStep(c) == TransactionStep(c) /\ call'[c].committed

\* C1: every add_graph_documents call is all or nothing.  When its
\* transaction fails, whether the backend failed or a row was rejected after
\* earlier rows of the batch had been written, the node table and the edge
\* table are as they were before it; when it commits, every node of the batch
\* has its row in the node table and every relationship its row in the edge
\* table.
C1_AllOrNothing ==
    [][\A c \in Stores :
          TransactionStep(c) =>
             IF call'[c].committed
             THEN /\ \A i \in DOMAIN BatchNodes(call[c].args.graph_documents) :
                        ExpectedId[BatchNodes(call[c].args.graph_documents)[i]]
                            \in DOMAIN node_rows'
                  /\ \A rel \in BatchRelationships(
                                    call[c].args.graph_documents) :
                        <<ExpectedId[rel.source], ExpectedId[rel.target],
                          EdgeHashOf[rel]>> \in DOMAIN edge_rows'
             ELSE node_rows' = node_rows /\ edge_rows' = edge_rows]_vars

\* A call on d3 ended with the transaction's exception although both tables
\* exist and the backend did not fail: the node upsert was accepted, the edge
\* upsert was rejected, and the node of d3 has no row.
C1_Witness ==
    \E c \in Stores :
        /\ pc[c] = "done"
        /\ call[c].op = "add"
        /\ call[c].args.graph_documents = <<"d3">>
        /\ call[c].outcome = "raised"
        /\ ~call[c].fault
        /\ {NodeTable, EdgeTable} \subseteq db_catalog
        /\ ExpectedId["n3"] \notin DOMAIN node_rows
        /\ node_rows = call[c].before.nodes

\* What adding the batch of args does to database db with the Node objects'
\* properties heap, as [db, ok], when the backend does not fail.
Added(db, heap, args, docs) ==
    CommitResult(db,
                 BufferedMutations(insert_data(docs, args.include_source,
                                               args.baseEntityLabel, heap)),
                 FALSE)

\* C2: upserting is idempotent per node.  Whenever an add_graph_documents
\* call commits, adding the same batch again in a next call is accepted and
\* leaves the tables as the first add left them, the batch with every
\* document given twice in the one call would have left the same tables, and
\* each node of the batch is found as exactly one row under its identifier.
C2_IdempotentUpsert ==
    [][\A c \in Stores :
          CommitStep(c) =>
             /\ Added(Database', obj_properties', call[c].args,
                      call[c].args.graph_documents)
                    = [db |-> Database', ok |-> TRUE]
             /\ Added(Database, obj_properties, call[c].args,
                      call[c].args.graph_documents
                          \o call[c].args.graph_documents)
                    = [db |-> Database', ok |-> TRUE]
             /\ \A i \in DOMAIN BatchNodes(call[c].args.graph_documents) :
                   Len(ResultRows(
                           Database',
                           NodeStatement(BatchNodes(
                               call[c].args.graph_documents)[i]))) = 1]_vars

\* A call that added d1 twice committed on empty tables and left two node
\* rows and one edge row.
C2_Witness ==
    \E c \in Stores :
        /\ pc[c] = "done"
        /\ call[c].op = "add"
        /\ call[c].committed
        /\ call[c].args.graph_documents = <<"d1", "d1">>
        /\ call[c].before.nodes = NoRows
        /\ Cardinality(DOMAIN node_rows) = 2
        /\ Cardinality(DOMAIN edge_rows) = 1
        /\ node_rows[ExpectedId["n1"]].properties = obj_properties["n1"]

\* C3: when two documents both hold a node with the same (type, id) and
\* different properties, in one batch or in successive calls, then after the
\* later one is committed the row of that identifier holds the later node's
\* label and properties, and it is the only row of that (type, id).
C3_LaterDocumentWins ==
    [][\A c \in Stores :
          CommitStep(c) /\ DefaultFlags(call[c].args) =>
             \A j \in DOMAIN BatchNodes(call[c].args.graph_documents) :
                LET occ == BatchNodes(call[c].args.graph_documents)
                    id == ExpectedId[occ[j]]
                IN  (/\ IsLast(occ, j)
                     /\ \/ \E i \in 1..(j - 1) :
                              /\ SameKey(occ[i], occ[j])
                              /\ obj_properties[occ[i]]
                                     # obj_properties[occ[j]]
                        \/ /\ id \in DOMAIN node_rows
                           /\ node_rows[id].properties
                                  # obj_properties[occ[j]])
                    => /\ id \in DOMAIN node_rows'
                       /\ node_rows'[id] =
                              [label |-> NodeType[occ[j]],
                               properties |-> obj_properties[occ[j]]]
                       /\ {k \in DOMAIN node_rows' :
                              node_rows'[k].label = TextCompany}
                              \subseteq {IdCompanyAcme}]_vars

\* The batch <<d1, d2>> was committed: the one Company row holds the
\* country of d2's node, and the Person row of d1 is there too.
C3_Witness ==
    \E c \in Stores :
        /\ pc[c] = "done"
        /\ call[c].op = "add"
        /\ call[c].committed
        /\ call[c].args.graph_documents = <<"d1", "d2">>
        /\ DOMAIN node_rows = {IdCompanyAcme, IdPersonJane}
        /\ node_rows[IdCompanyAcme].properties = [country |-> <<"str", "UK">>]

SchemaVerificationStep(c) ==
    /\ pc[c] \in {"sv_tables", "sv_update_tables", "sv_graph",
                  "sv_update_graph"}
    /\ pc'[c] # pc[c]

\* C5: schema verification is idempotent.  While both tables and the graph
\* exist, no step of _create_or_verify_schema, in whichever call it runs and
\* however often, submits a DDL statement: the call has submitted none, the
\* queue of DDL operations and the schema stay as they are.
C5_SchemaVerificationIdempotent ==
    [][\A c \in Stores :
          SchemaVerificationStep(c) /\ SchemaObjects \subseteq db_catalog =>
             /\ call'[c].submitted = <<>>
             /\ ddl_queue' = ddl_queue
             /\ db_catalog' = db_catalog]_vars

\* A refresh_schema() found both tables and the graph, submitted nothing and
\* returned.
C5_Witness ==
    \E c \in Stores :
        /\ pc[c] = "done"
        /\ call[c].op = "refresh"
        /\ call[c].seen = SchemaObjects
        /\ call[c].submitted = <<>>
        /\ call[c].outcome = "returned"
        /\ SchemaObjects \subseteq db_catalog

\* C6: read after write.  When add_graph_documents with the default flags
\* commits, the query on the node table by hash("T-I") returns, for every
\* node (type T, id I, properties P) that is the last of its key in the
\* batch, exactly one row with label T and properties P, and the query on the
\* edge table by the identifiers of A and B returns, for every relationship
\* of type R with properties Q from A to B, exactly one row with label R and
\* properties Q.
C6_ReadAfterWrite ==
    [][\A c \in Stores :
          CommitStep(c) /\ DefaultFlags(call[c].args) =>
             /\ \A i \in DOMAIN BatchNodes(call[c].args.graph_documents) :
                   LET occ == BatchNodes(call[c].args.graph_documents)
                   IN  IsLast(occ, i) =>
                          QueryResults(ResultRows(Database',
                                                  NodeStatement(occ[i])))
                              = <<[label |-> NodeType[occ[i]],
                                   properties |-> obj_properties[occ[i]]]>>
             /\ \A rel \in BatchRelationships(call[c].args.graph_documents) :
                   QueryResults(ResultRows(Database', EdgeStatement(rel)))
                       = <<[label |-> rel.type,
                            properties |-> rel.properties]>>]_vars

\* A query() by hash("Company-Acme") returned one row: label "Company",
\* country "USA".
C6_Witness ==
    \E c \in Stores :
        /\ pc[c] = "done"
        /\ call[c].op = "query"
        /\ call[c].outcome = "returned"
        /\ query_result[c] =
               <<[label |-> TextCompany,
                  properties |-> [country |-> <<"str", "USA">>]]>>

\* C7: cleanup() never raises: from every schema state, and whichever
\* failure the backend produces in update_ddl, in the DDL operation or by
\* not finishing within the timeout, the call ends by returning.
C7_CleanupNeverRaises ==
    \A c \in Stores :
        call[c].op = "cleanup" =>
            /\ call[c].outcome # "raised"
            /\ pc[c] = "done" => call[c].outcome = "returned"

\* A cleanup() returned although the backend failed at its second DROP: both
\* tables are still there.
C7_Witness ==
    \E c \in Stores :
        /\ pc[c] = "done"
        /\ call[c].op = "cleanup"
        /\ call[c].fault
        /\ call[c].outcome = "returned"
        /\ db_catalog = {NodeTable, EdgeTable}

\* C8: schema verification is fail-open: the constructor and
\* refresh_schema() end by returning, whichever backend failure hits the
\* catalog queries or the creation of the tables or of the graph, and
\* whether or not the schema exists afterwards.
C8_SchemaVerificationFailOpen ==
    \A c \in Stores :
        call[c].op \in {"init", "refresh"} =>
            /\ call[c].outcome # "raised"
            /\ pc[c] = "done" => call[c].outcome = "returned"

\* The constructor returned after a backend failure, and no schema object
\* exists.
C8_Witness ==
    \E c \in Stores :
        /\ pc[c] = "done"
        /\ call[c].op = "init"
        /\ call[c].fault
        /\ call[c].outcome = "returned"
        /\ db_catalog = {}

\* C9: add_graph_documents calls run_in_transaction once and ends in one of
\* two ways: it returns, and then its transaction was committed, or it
\* raises, and then its transaction failed; a failed schema verification
\* before it changes nothing of this.
C9_ReturnOrTransactionError ==
    \A c \in Stores :
        call[c].op = "add" /\ call[c].outcome # "none" =>
            /\ call[c].transactions <= 1
            /\ call[c].committed => call[c].transactions = 1
            /\ call[c].outcome = "returned" <=>
                  (pc[c] = "done" /\ call[c].committed)
            /\ call[c].outcome = "raised" <=>
                  (/\ pc[c] = "done"
                   /\ call[c].transactions = 1
                   /\ ~call[c].committed)

\* An add_graph_documents whose schema verification left no node table
\* raised the exception of its one transaction.
C9_Witness ==
    \E c \in Stores :
        /\ pc[c] = "done"
        /\ call[c].op = "add"
        /\ call[c].outcome = "raised"
        /\ call[c].transactions = 1
        /\ call[c].seen = {}
        /\ NodeTable \notin db_catalog

\* C10: the identifier function is deterministic and collision-free on the
\* inputs used: two calls return the same value exactly when they are made
\* on the same string, whichever store instance makes them, and no call
\* changes anything of the store or the database.
C10_HashInjective ==
    /\ \A i, j \in DOMAIN hash_calls :
          (hash_calls[i].result = hash_calls[j].result)
              <=> (hash_calls[i].input_string = hash_calls[j].input_string)
    /\ \A r \in AllRelationships : \A n \in NodeObjects :
          EdgeHashOf[r] # NodeHashOf[n]
    /\ db_catalog = {} /\ node_rows = NoRows /\ edge_rows = NoRows
    /\ obj_properties = InitialProperties
    /\ \A c \in Stores : pc[c] = "new" /\ call[c] = NoCall

\* Two store instances hashed "Company-Acme" and both got the first 8 bytes
\* of its SHA-256 digest.
C10_Witness ==
    /\ Len(hash_calls) = 2
    /\ hash_calls[1].store # hash_calls[2].store
    /\ hash_calls[1].input_string = TextCompanyAcme
    /\ hash_calls[2].input_string = TextCompanyAcme
    /\ hash_calls[1].result = <<173, 32, 162, 72, 15, 111, 61, 174>>
    /\ hash_calls[2].result = hash_calls[1].result

\* C11: nodes are keyed by the pair (type, id): two nodes get the same
\* identifier, and so the same node-table row, exactly when they have the
\* same type and the same id.  It fails: "A-B"/"C" and "A"/"B-C" both give
\* the key text "A-B-C".
C11_KeyedByTypeAndId ==
    \A i, j \in DOMAIN hash_calls :
        (hash_calls[i].result = hash_calls[j].result)
            <=> (/\ hash_calls[i].type = hash_calls[j].type
                 /\ hash_calls[i].id = hash_calls[j].id)

\* The relationships of a batch, in document order and list order.
RECURSIVE BatchRelationshipList(_)
BatchRelationshipList(docs) ==
    IF docs = <<>> THEN <<>>
    ELSE DocRelationships[Head(docs)] \o BatchRelationshipList(Tail(docs))

\* The edge identifiers the caller expects between Company Acme and Person
\* Jane, and from Company Acme to Person Bob: the first 8 bytes of the
\* SHA-256 digests of "-5971594675512984146-EMPLOYS-1131482214299922244", of
\* "-5971594675512984146-OWNS-1131482214299922244" and of
\* "-5971594675512984146-KNOWS--8267856494180212850".
ExpectedEdgeId(type) ==
    CASE type = TextEMPLOYS -> <<149, 69, 206, 250, 249, 204, 71, 165>>
      [] type = TextOWNS -> <<114, 8, 166, 84, 82, 23, 169, 83>>
      [] OTHER -> <<214, 35, 86, 4, 9, 153, 184, 61>>

ExpectedEdgeKey(rel) ==
    <<ExpectedId[rel.source], ExpectedId[rel.target], ExpectedEdgeId(rel.type)>>

SameEdge(a, b) ==
    /\ SameKey(a.source, b.source)
    /\ SameKey(a.target, b.target)
    /\ a.type = b.type

\* C12: edges are keyed by (source identifier, target identifier, edge-type
\* identifier).  Whenever a batch is committed, every relationship that is
\* the last of its (source, target, type) in the batch has its row under
\* that key with its type and properties, the edge rows under other keys are
\* as they were, and the table holds one row per relationship type between
\* the two nodes: types coexist, a relationship given again overwrites.
C12_EdgeKey ==
    [][\A c \in Stores :
          CommitStep(c) =>
             LET rels == BatchRelationshipList(call[c].args.graph_documents)
                 keys == {ExpectedEdgeKey(rels[i]) : i \in DOMAIN rels}
             IN  /\ \A i \in DOMAIN rels :
                       (\A j \in (i + 1)..Len(rels) :
                            ~SameEdge(rels[i], rels[j]))
                       => /\ ExpectedEdgeKey(rels[i]) \in DOMAIN edge_rows'
                          /\ edge_rows'[ExpectedEdgeKey(rels[i])] =
                                 [label |-> rels[i].type,
                                  properties |-> rels[i].properties]
                 /\ DOMAIN edge_rows' = DOMAIN edge_rows \cup keys
                 /\ \A k \in DOMAIN edge_rows \ keys :
                       edge_rows'[k] = edge_rows[k]
                 /\ \A k1, k2 \in DOMAIN edge_rows' :
                       edge_rows'[k1].label = edge_rows'[k2].label
                           => k1 = k2]_vars

\* The batch <<d1, d4>> was committed: the EMPLOYS row holds the properties
\* given last and the OWNS row stands beside it.
C12_Witness ==
    \E c \in Stores :
        /\ pc[c] = "done"
        /\ call[c].committed
        /\ call[c].args.graph_documents = <<"d1", "d4">>
        /\ Cardinality(DOMAIN edge_rows) = 2
        /\ \E k \in DOMAIN edge_rows :
              edge_rows[k] = [label |-> TextEMPLOYS,
                              properties |-> [years |-> <<"int", "5">>]]
        /\ \E k \in DOMAIN edge_rows : edge_rows[k].label = TextOWNS

\* The edge table after the nodes of d1 and then its relationship are added
\* to empty tables.
NodesThenEdge ==
    Added([catalog |-> SchemaObjects, nodes |-> NoRows, edges |-> NoRows],
          InitialProperties, NoArguments, <<"d6", "d5">>).db.edges

\* C13: the edge row of a relationship depends on the natural keys of its
\* endpoints and on its type only.  Whenever a committed batch ends with the
\* EMPLOYS relationship of d1, wherever it stands in the batch (after its
\* nodes, before them, in a document of its own, in a later call than its
\* nodes), its row has the key columns, the label and the properties of the
\* row that adding node A, node B and then the edge produces.
C13_EdgeRowIndependentOfOrder ==
    [][\A c \in Stores :
          (/\ CommitStep(c)
           /\ call[c].args.graph_documents
                  \in {<<"d1">>, <<"d5">>, <<"d5", "d6">>, <<"d6", "d5">>,
                       <<"d4", "d1">>})
          => /\ DOMAIN NodesThenEdge # {}
             /\ \A k \in DOMAIN NodesThenEdge :
                   /\ k \in DOMAIN edge_rows'
                   /\ edge_rows'[k] = NodesThenEdge[k]]_vars

\* The batch <<d5, d6>>, the relationship before its nodes, was committed on
\* empty tables and left the EMPLOYS row under the expected key.
C13_Witness ==
    \E c \in Stores :
        /\ pc[c] = "done"
        /\ call[c].committed
        /\ call[c].args.graph_documents = <<"d5", "d6">>
        /\ call[c].before.edges = NoRows
        /\ DOMAIN edge_rows =
               {<<IdCompanyAcme, IdPersonJane, ExpectedEdgeId(TextEMPLOYS)>>}
        /\ \A k \in DOMAIN edge_rows :
              edge_rows[k] = [label |-> TextEMPLOYS,
                              properties |-> [years |-> <<"int", "3">>]]

\* C14: add_graph_documents never modifies the GraphDocuments passed to it:
\* the properties of every Node are the same after every step as before it,
\* for every combination of include_source and baseEntityLabel.  It fails:
\* with a flag set, a Node with non-empty properties has the injected keys
\* afterwards.
C14_InputsNotModified == [][obj_properties' = obj_properties]_vars

\* C15: query(statement) returns one mapping per result row, in result
\* order, each pairing the field names with the row's values in field order
\* (label with the first column, properties with the second); a statement
\* with no result rows returns the empty list and does not raise.
C15_QueryZipsRows ==
    [][\A c \in Stores :
          (pc[c] = "idle" /\ pc'[c] = "done" /\ call'[c].op = "query")
          => LET rows == ResultRows(Database, call'[c].statement)
             IN  IF call'[c].outcome = "returned"
                 THEN /\ Len(query_result'[c]) = Len(rows)
                      /\ \A i \in DOMAIN rows :
                            /\ DOMAIN query_result'[c][i]
                                   = {"label", "properties"}
                            /\ query_result'[c][i].label = rows[i][1]
                            /\ query_result'[c][i].properties = rows[i][2]
                 ELSE call'[c].fault
                      \/ call'[c].statement.table \notin db_catalog]_vars

\* A query() on the edge table returned two mappings, one per relationship
\* type between the two nodes.
C15_Witness ==
    \E c \in Stores :
        /\ pc[c] = "done"
        /\ call[c].op = "query"
        /\ call[c].outcome = "returned"
        /\ call[c].statement.table = EdgeTable
        /\ Len(query_result[c]) = 2
        /\ {query_result[c][1].label, query_result[c][2].label}
               = {TextEMPLOYS, TextOWNS}


\* C16: a repeated identifier within one call is no error and the last
\* occurrence wins.  When the batch of an add_graph_documents call holds
\* several nodes with the same (type, id), the backend does not fail, both
\* tables exist and every relationship's source node has a row or is in the
\* batch, then the transaction commits, the call returns without raising,
\* and the row of each repeated identifier holds the label and properties of
\* its last occurrence in document order and node order.
C16_LastOccurrenceInBatchWins ==
    [][\A c \in Stores :
          LET occ == BatchNodes(call[c].args.graph_documents)
          IN  (/\ TransactionStep(c)
               /\ ~call'[c].fault
               /\ {NodeTable, EdgeTable} \subseteq db_catalog
               /\ \A rel \in BatchRelationships(call[c].args.graph_documents) :
                     \/ ExpectedId[rel.source] \in DOMAIN node_rows
                     \/ \E i \in DOMAIN occ : SameKey(occ[i], rel.source))
              => \A j \in DOMAIN occ :
                    (IsLast(occ, j)
                     /\ \E i \in 1..(j - 1) : SameKey(occ[i], occ[j]))
                    => /\ call'[c].committed
                       /\ call'[c].outcome = "returned"
                       /\ ExpectedId[occ[j]] \in DOMAIN node_rows'
                       /\ node_rows'[ExpectedId[occ[j]]] =
                              [label |-> NodeType[occ[j]],
                               properties |-> obj_properties'[occ[j]]]]_vars

\* The batch <<d2, d1>> was committed over a stored Company row: that row
\* now holds the country of d1's node, the last occurrence, not of d2's.
C16_Witness ==
    \E c \in Stores :
        /\ pc[c] = "done"
        /\ call[c].op = "add"
        /\ call[c].outcome = "returned"
        /\ call[c].args.graph_documents = <<"d2", "d1">>
        /\ IdCompanyAcme \in DOMAIN call[c].before.nodes
        /\ node_rows[IdCompanyAcme].properties = [country |-> <<"str", "USA">>]
        /\ InitialProperties["n3"] # node_rows[IdCompanyAcme].properties

\* C17: schema verification comes first in every add_graph_documents call
\* and is over before the transaction.  Every add_graph_documents call, the
\* first or a later one, starts with the catalog query of
\* _create_or_verify_schema; run_in_transaction is reached only by a step
\* out of _create_or_verify_schema, with every schema change the call
\* submitted run and its result taken, and with no transaction of the call
\* before it; and a transaction runs only from there.
C17_SchemaVerifiedBeforeTransaction ==
    [][\A c \in Stores :
          /\ (pc[c] = "idle" /\ call'[c].op = "add")
                => pc'[c] = "sv_tables" /\ call'[c].transactions = 0
          /\ (pc'[c] = "txn" /\ pc[c] # "txn")
                => /\ pc[c] \in InSchemaVerification
                   /\ call[c].op = "add"
                   /\ call'[c].transactions = 0
                   /\ ddl_result'[c] = "none"
                   /\ \A i \in DOMAIN ddl_queue' :
                         ~(ddl_queue'[i].owner = c /\ ddl_queue'[i].awaited)
          /\ call'[c].transactions # call[c].transactions
                => \/ pc[c] = "txn" /\ call[c].op = "add"
                   \/ call'[c].transactions = 0]_vars

\* A later add_graph_documents call, made when rows of an earlier one are
\* stored, has found all three schema objects and is about to open its
\* transaction.
C17_Witness ==
    \E c \in Stores :
        /\ pc[c] = "txn"
        /\ call[c].op = "add"
        /\ call[c].seen = SchemaObjects
        /\ call[c].submitted = <<>>
        /\ node_rows # NoRows

\* The mutations the transaction of store c's call buffers, in the order of
\* their insert_or_update calls.
IssuedUpserts(c) ==
    BufferedMutations(insert_data(call[c].args.graph_documents,
                                  call[c].args.include_source,
                                  call[c].args.baseEntityLabel,
                                  obj_properties))

\* C18: in the transaction of an add_graph_documents call the node upsert
\* comes before the edge upsert, each at most once and only for a non-empty
\* batch.  The upserts are at most two, all insert_or_update; a node upsert
\* is issued exactly when the batch has a node and is then the first, with
\* one row per node occurrence; an edge upsert is issued exactly when the
\* batch has a relationship and is then the last; so a batch with nodes and
\* no relationship issues the one node upsert and an empty batch none, and
\* the empty batch's transaction changes no row.  The order shows in the
\* tables: when the tables exist and the backend does not fail, a batch
\* whose relationships all start at nodes of the batch commits, its edge rows
\* finding the node rows written before them.
C18_NodeUpsertThenEdgeUpsert ==
    [][\A c \in Stores :
          TransactionStep(c) =>
             LET ups == IssuedUpserts(c)
                 occ == BatchNodes(call[c].args.graph_documents)
                 rels == BatchRelationships(call[c].args.graph_documents)
                 nodeUps == {i \in DOMAIN ups : ups[i].table = NodeTable}
                 edgeUps == {i \in DOMAIN ups : ups[i].table = EdgeTable}
             IN  /\ Len(ups) <= 2
                 /\ \A i \in DOMAIN ups :
                       /\ ups[i].op = "insert_or_update"
                       /\ ups[i].table \in {NodeTable, EdgeTable}
                       /\ ups[i].values # <<>>
                 /\ nodeUps = IF occ # <<>> THEN {1} ELSE {}
                 /\ edgeUps = IF rels # {} THEN {Len(ups)} ELSE {}
                 /\ occ # <<>> => Len(ups[1].values) = Len(occ)
                 /\ (occ # <<>> /\ rels # {}) => Len(ups) = 2
                 /\ (occ # <<>> /\ rels = {})
                       => Len(ups) = 1 /\ ups[1].table = NodeTable
                 /\ (occ = <<>> /\ rels = {})
                       => /\ ups = <<>>
                          /\ node_rows' = node_rows
                          /\ edge_rows' = edge_rows
                 /\ (/\ ~call'[c].fault
                     /\ {NodeTable, EdgeTable} \subseteq db_catalog
                     /\ \A rel \in rels :
                           \E i \in DOMAIN occ : SameKey(occ[i], rel.source))
                       => call'[c].committed]_vars

\* A call with the batch <<d2>>, one node and no relationship, committed its
\* single upsert; before it the node table had no row, after it one.
C18_Witness ==
    \E c \in Stores :
        /\ pc[c] = "done"
        /\ call[c].op = "add"
        /\ call[c].committed
        /\ call[c].args.graph_documents = <<"d2">>
        /\ call[c].before.nodes = NoRows
        /\ Cardinality(DOMAIN node_rows) = 1
        /\ edge_rows = NoRows

\* The table batch a call submits after a catalog query that found the
\* tables of found.
MissingTables(found) ==
    (IF NodeTable \notin found THEN <<"CREATE TABLE GraphNode">> ELSE <<>>)
    \o (IF EdgeTable \notin found THEN <<"CREATE TABLE GraphEdge">> ELSE <<>>)

\* The DDL operations of store c that the database has not run yet and that
\* c waits for.
AwaitedOperations(c) ==
    {i \in DOMAIN ddl_queue : ddl_queue[i].owner = c /\ ddl_queue[i].awaited}

\* C19: _create_or_verify_schema creates what is missing, tables first.  A
\* call that runs it submits at most two DDL operations; a table batch is the
\* first submission only, and it holds the creation statements of exactly the
\* tables the catalog query did not find, the node table's before the edge
\* table's; the graph's creation is the last submission and comes after the
\* table batch whenever a table was missing; while the call checks for the
\* graph or submits it, the table batch has run and its result is taken;
\* and a call that found no table and met no backend error has, once schema
\* verification is over, made exactly two submissions, the batch of both
\* tables and then the graph's creation.
C19_MissingTablesThenGraph ==
    \A c \in Stores :
        call[c].op \in {"init", "refresh", "add"} =>
            LET sub == call[c].submitted
                tables == MissingTables(call[c].seen)
            IN  /\ Len(sub) <= 2
                /\ \A i \in DOMAIN sub :
                      \/ sub[i] = <<graph_ddl>> /\ i = Len(sub)
                      \/ sub[i] = tables /\ tables # <<>> /\ i = 1
                /\ (\E i \in DOMAIN sub : sub[i] = <<graph_ddl>>)
                      => Len(sub) = IF tables = <<>> THEN 1 ELSE 2
                /\ pc[c] \in {"sv_graph", "sv_update_graph"}
                      => ddl_result[c] = "none" /\ AwaitedOperations(c) = {}
                /\ pc[c] = "sv_wait_graph"
                      => \A i \in AwaitedOperations(c) :
                            ddl_queue[i].stmts = <<graph_ddl>>
                /\ (/\ pc[c] \in {"txn", "done"}
                    /\ ~call[c].fault
                    /\ call[c].seen = {})
                      => sub = <<<<"CREATE TABLE GraphNode",
                                   "CREATE TABLE GraphEdge">>,
                                 <<"CREATE PROPERTY GRAPH FinGraph">>>>

\* A refresh_schema() found the node table alone, submitted the creation of
\* the edge table, then that of the graph, and returned with all three
\* there.
C19_Witness ==
    \E c \in Stores :
        /\ pc[c] = "done"
        /\ call[c].op = "refresh"
        /\ call[c].seen = {NodeTable}
        /\ call[c].submitted = <<<<"CREATE TABLE GraphEdge">>, <<graph_ddl>>>>
        /\ SchemaObjects \subseteq db_catalog

\* C20: the postcondition of schema verification.  When
\* _create_or_verify_schema returns, in whichever call and whichever of the
\* node table, the edge table and the graph existed when it began, and no
\* backend error hit the call and no cleanup ran beside it, the node table,
\* the edge table and the graph all exist.
C20_SchemaExistsOnReturn ==
    [][\A c \in Stores :
          (/\ pc[c] \in InSchemaVerification
           /\ pc'[c] \notin InSchemaVerification
           /\ ~call'[c].fault
           /\ ~call'[c].interfered)
          => SchemaObjects \subseteq db_catalog']_vars

\* A refresh_schema() that found both tables and no graph, with no backend
\* error and no cleanup beside it, submitted the graph's creation alone and
\* returned with all three objects there.
C20_Witness ==
    \E c \in Stores :
        /\ pc[c] = "done"
        /\ call[c].op = "refresh"
        /\ ~call[c].fault
        /\ ~call[c].interfered
        /\ call[c].seen = {NodeTable, EdgeTable}
        /\ call[c].submitted = <<<<graph_ddl>>>>
        /\ SchemaObjects \subseteq db_catalog

\* C21: concurrent first construction is tolerated.  Two stores are
\* constructed concurrently on a database without the schema.  In every
\* interleaving of their schema verifications and of the database's DDL
\* operations neither constructor raises, and when both have returned with
\* no backend failure in either, the node table, the edge table and the
\* graph exist.
C21_ConcurrentInitialization ==
    /\ \A c \in Stores : call[c].op = "init" => call[c].outcome # "raised"
    /\ (\A c \in Stores :
           pc[c] = "done" /\ call[c].op = "init" /\ ~call[c].fault)
          => /\ \A c \in Stores : call[c].outcome = "returned"
             /\ SchemaObjects \subseteq db_catalog

\* Both constructors found no table and both submitted the creation of the
\* tables; the second batch was rejected; both have returned and the schema
\* is complete.
C21_Witness ==
    /\ Stores = {"s1", "s2"}
    /\ \A c \in Stores :
          /\ pc[c] = "done"
          /\ call[c].op = "init"
          /\ ~call[c].fault
          /\ call[c].seen = {}
          /\ Len(call[c].submitted) >= 1
    /\ SchemaObjects \subseteq db_catalog

\* The row a committed call writes for Node object n, whose properties
\* mapping is the caller's own.
WrittenRow(n, heap) == [label |-> NodeType[n], properties |-> heap[n]]

\* The node rows that the transaction of store c's call puts into its
\* upsert: <<id, label, properties>>.
BuiltNodeRows(c) ==
    insert_data(call[c].args.graph_documents, call[c].args.include_source,
                call[c].args.baseEntityLabel, obj_properties).node_mutations

\* C22: concurrent writers of one key.  While two stores add documents
\* concurrently, every transaction is all or nothing: a failed one leaves the
\* two tables as they were, a committed one leaves under each key of its
\* batch the whole row it wrote and leaves every other row as it was.  When
\* the call that added d1 with baseEntityLabel and the call that added d2
\* have both committed, the row of Company Acme, which both wrote, is the row
\* of one of the two calls, label and properties together, and not of both.
C22_ContestedRowFromOneCall ==
    [][\A c \in Stores :
          TransactionStep(c) =>
             LET occ == BatchNodes(call[c].args.graph_documents)
                 ids == {ExpectedId[occ[i]] : i \in DOMAIN occ}
             IN  /\ ~call'[c].committed
                       => node_rows' = node_rows /\ edge_rows' = edge_rows
                 /\ call'[c].committed
                       => /\ \A i \in DOMAIN occ :
                                /\ BuiltNodeRows(c)[i][1] = ExpectedId[occ[i]]
                                /\ node_rows'[ExpectedId[occ[i]]]
                                       = [label |-> BuiltNodeRows(c)[i][2],
                                          properties |->
                                              BuiltNodeRows(c)[i][3]]
                          /\ \A k \in (DOMAIN node_rows') \ ids :
                                k \in DOMAIN node_rows
                                   /\ node_rows'[k] = node_rows[k]
                          /\ \A rel \in BatchRelationships(
                                            call[c].args.graph_documents) :
                                <<ExpectedId[rel.source],
                                  ExpectedId[rel.target],
                                  EdgeHashOf[rel]>> \in DOMAIN edge_rows'
                 /\ (\E a, b \in Stores :
                        /\ pc'[a] = "done" /\ call'[a].committed
                        /\ call'[a].args.graph_documents = <<"d1">>
                        /\ pc'[b] = "done" /\ call'[b].committed
                        /\ call'[b].args.graph_documents = <<"d2">>)
                       => /\ node_rows'[IdCompanyAcme]
                                \in {WrittenRow("n1", obj_properties'),
                                     WrittenRow("n3", obj_properties')}
                          /\ WrittenRow("n1", obj_properties')
                                # WrittenRow("n3", obj_properties')]_vars

\* Store s2's call began on a database without tables and committed d2 over
\* the Company Acme row that s1's call, which ran meanwhile, had committed
\* with baseEntityLabel; the row is s2's, without that key.
C22_Witness ==
    \E a, b \in Stores :
        /\ a # b
        /\ pc[a] = "done" /\ call[a].committed
        /\ call[a].args.graph_documents = <<"d1">>
        /\ pc[b] = "done" /\ call[b].committed
        /\ call[b].args.graph_documents = <<"d2">>
        /\ call[b].seen = {}
        /\ IdCompanyAcme \in DOMAIN call[b].before.nodes
        /\ "baseEntityLabel"
              \in DOMAIN call[b].before.nodes[IdCompanyAcme].properties
        /\ node_rows[IdCompanyAcme] = WrittenRow("n3", obj_properties)

\* C23: no schema state is kept between calls.  On a store that has verified
\* the schema, every refresh_schema and add_graph_documents call begins with
\* the catalog query; what the call takes to exist is what the catalog holds
\* at that query, and the creation of the tables, and of the graph, is
\* submitted exactly when the catalog read in this call lacks them; so a call
\* that finds no table after another client's cleanup, and meets no backend
\* failure and no further drop, submits both creations and returns with the
\* node table, the edge table and the graph there again.
C23_NoCachedSchemaState ==
    [][\A c \in Stores :
          /\ (pc[c] = "idle" /\ call'[c].op \in {"refresh", "add"})
                => pc'[c] = "sv_tables" /\ existing_tables[c] = {}
          /\ (pc[c] = "sv_tables" /\ pc'[c] # pc[c] /\ ~call'[c].fault)
                => /\ existing_tables'[c] = db_catalog \cap {NodeTable, EdgeTable}
                   /\ call'[c].seen = db_catalog \cap {NodeTable, EdgeTable}
                   /\ pc'[c] = IF {NodeTable, EdgeTable} \subseteq db_catalog
                               THEN "sv_graph" ELSE "sv_update_tables"
          /\ (pc[c] = "sv_update_tables" /\ pc'[c] = "sv_wait_tables")
                => call'[c].submitted
                       = <<MissingTables(call[c].seen)>>
          /\ (pc[c] = "sv_graph" /\ pc'[c] # pc[c] /\ ~call'[c].fault)
                => (pc'[c] = "sv_update_graph" <=> GraphName \notin db_catalog)
          /\ (/\ pc[c] \in InSchemaVerification
              /\ pc'[c] \notin InSchemaVerification
              /\ call'[c].seen = {}
              /\ ~call'[c].fault
              /\ ~call'[c].interfered)
                => /\ call'[c].submitted
                          = <<<<"CREATE TABLE GraphNode",
                                "CREATE TABLE GraphEdge">>,
                              <<graph_ddl>>>>
                   /\ SchemaObjects \subseteq db_catalog']_vars

\* After another client's cleanup had run, an add_graph_documents call of
\* the store found no table, created the tables and the graph again and
\* committed d1 into them.
C23_Witness ==
    \E c \in Stores :
        /\ pc[c] = "done"
        /\ call[c].op = "add"
        /\ call[c].seen = {}
        /\ ~call[c].fault
        /\ ~call[c].interfered
        /\ Len(call[c].submitted) = 2
        /\ call[c].committed
        /\ call[c].args.graph_documents = <<"d1">>
        /\ SchemaObjects \subseteq db_catalog
        /\ IdCompanyAcme \in DOMAIN node_rows

\* C24: cleanup() drops the graph, then the edge table, then the node table.
\* Its one update_ddl call submits the three DROP ... IF EXISTS statements in
\* that order as one operation; when that operation has run without backend
\* failure, whichever of the three objects existed before, none of them
\* exists and no row is left; and a cleanup() that returns with no backend
\* failure has made that one submission and leaves the catalog empty.
C24_CleanupDropsInOrder ==
    [][\A c \in Stores :
          /\ (pc[c] = "cl_update" /\ pc'[c] = "cl_wait")
                => /\ call'[c].submitted =
                          <<<<"DROP PROPERTY GRAPH IF EXISTS FinGraph",
                              "DROP TABLE IF EXISTS GraphEdge",
                              "DROP TABLE IF EXISTS GraphNode">>>>
                   /\ ddl_queue' = Append(ddl_queue,
                                          [owner |-> c,
                                           stmts |-> call'[c].submitted[1],
                                           awaited |-> TRUE])
          /\ (pc[c] = "cl_wait" /\ ddl_result[c] = "none"
                /\ ddl_result'[c] = "ok")
                => /\ db_catalog' = {}
                   /\ node_rows' = NoRows
                   /\ edge_rows' = NoRows
          /\ (pc[c] = "cl_wait" /\ pc'[c] = "done" /\ ~call'[c].fault)
                => /\ Len(call'[c].submitted) = 1
                   /\ db_catalog' = {}
                   /\ node_rows' = NoRows
                   /\ edge_rows' = NoRows]_vars

\* A cleanup() called when node rows and an edge row were stored returned
\* with no backend failure: the catalog is empty and the rows are gone.
C24_Witness ==
    \E c \in Stores :
        /\ pc[c] = "done"
        /\ call[c].op = "cleanup"
        /\ call[c].outcome = "returned"
        /\ ~call[c].fault
        /\ call[c].before.nodes # NoRows
        /\ call[c].before.edges # NoRows
        /\ db_catalog = {}
        /\ node_rows = NoRows

\* C25: only cleanup removes.  A schema object leaves the catalog, or a row's
\* key leaves a table, only in the step in which the database runs the DDL
\* operation of a cleanup(); query changes neither the catalog nor a row nor
\* the queue of DDL operations; no step of _create_or_verify_schema, in the
\* constructor, refresh_schema or add_graph_documents, changes the catalog or
\* a row by itself, and the DDL operations it submits only add to the
\* catalog and leave every stored node row and edge row as it is.
C25_RemovedOnlyByCleanup ==
    [][/\ (\/ ~(db_catalog \subseteq db_catalog')
           \/ ~(DOMAIN node_rows \subseteq DOMAIN node_rows')
           \/ ~(DOMAIN edge_rows \subseteq DOMAIN edge_rows'))
             => /\ ddl_queue # <<>>
                /\ Head(ddl_queue).stmts =
                       <<"DROP PROPERTY GRAPH IF EXISTS FinGraph",
                         "DROP TABLE IF EXISTS GraphEdge",
                         "DROP TABLE IF EXISTS GraphNode">>
                /\ ddl_queue' = Tail(ddl_queue)
       /\ \A c \in Stores :
             /\ (pc[c] = "idle" /\ call'[c].op = "query")
                   => UNCHANGED <<db_catalog, node_rows, edge_rows, ddl_queue>>
             /\ (pc[c] \in InSchemaVerification /\ pc'[c] # pc[c])
                   => UNCHANGED <<db_catalog, node_rows, edge_rows>>
       /\ (/\ ddl_queue # <<>>
           /\ ddl_queue' = Tail(ddl_queue)
           /\ \E i \in DOMAIN Head(ddl_queue).stmts :
                 Head(ddl_queue).stmts[i]
                     \in {"CREATE TABLE GraphNode", "CREATE TABLE GraphEdge",
                          graph_ddl})
             => /\ db_catalog \subseteq db_catalog'
                /\ node_rows' = node_rows
                /\ edge_rows' = edge_rows]_vars

\* A refresh_schema() on tables that hold rows, where the graph was missing,
\* created the graph and returned; the node rows and the edge row are still
\* there.
C25_Witness ==
    \E c \in Stores :
        /\ pc[c] = "done"
        /\ call[c].op = "refresh"
        /\ call[c].seen = {NodeTable, EdgeTable}
        /\ call[c].submitted = <<<<graph_ddl>>>>
        /\ GraphName \in db_catalog
        /\ Cardinality(DOMAIN node_rows) = 2
        /\ Cardinality(DOMAIN edge_rows) = 1

C27_WaitsAreBounded ==
    \A c \in {"s1"} :
        (call[c].op \in {"init", "refresh", "cleanup"}
            /\ call[c].outcome = "running")
        ~> (pc[c] = "done")

\* C28: the injected properties follow the flags of the call.  Whenever an
\* add_graph_documents call commits, in whichever call of a sequence, the
\* row of each node of the batch (of the last occurrence of its key) has the
\* key baseEntityLabel exactly if the call asked for it or the caller's
\* mapping had it, has the key source exactly if the call asked for
\* include_source, then with the text and metadata of the occurrence's
\* document, and with both flags false holds the caller's mapping as it is.
C28_InjectedPropertiesFollowFlags ==
    [][\A c \in Stores :
          CommitStep(c) =>
             \A d \in DOMAIN call[c].args.graph_documents :
                \A j \in DOMAIN DocNodes[call[c].args.graph_documents[d]] :
                   LET doc == call[c].args.graph_documents[d]
                       n == DocNodes[doc][j]
                       p == node_rows'[ExpectedId[n]].properties
                   IN  (\A e \in DOMAIN call[c].args.graph_documents :
                           \A k \in DOMAIN DocNodes[
                                       call[c].args.graph_documents[e]] :
                              SameKey(DocNodes[call[c].args.graph_documents[e]][k], n)
                                 => (e < d \/ (e = d /\ k <= j)))
                       => /\ "baseEntityLabel" \in DOMAIN p
                                <=> (call[c].args.baseEntityLabel
                                     \/ "baseEntityLabel"
                                           \in DOMAIN InitialProperties[n])
                          /\ "source" \in DOMAIN p
                                <=> call[c].args.include_source
                          /\ call[c].args.include_source
                                => p["source"] =
                                      <<"dict", DocSource[doc].page_content,
                                        DocSource[doc].metadata>>
                          /\ DefaultFlags(call[c].args)
                                => p = InitialProperties[n]]_vars

\* C29: the edge batch is built without a referential check.  For every
\* batch, the builder puts one edge row per relationship into the edge
\* upsert, in order, with the identifiers of the relationship's source and
\* target as they hash, whether or not these nodes are in the nodes list of a
\* document of the call; building never fails.  A call fails in its
\* transaction only: when the backend fails, a table is missing, or the
\* database rejects a row, and then nothing of the batch is stored.
C29_NoReferentialCheck ==
    [][\A c \in Stores :
          TransactionStep(c) =>
             LET docs == call[c].args.graph_documents
                 built == insert_data(docs, call[c].args.include_source,
                                      call[c].args.baseEntityLabel,
                                      obj_properties)
                 rels == BatchRelationshipList(docs)
             IN  /\ Len(built.edge_mutations) = Len(rels)
                 /\ \A i \in DOMAIN rels :
                       built.edge_mutations[i] =
                           <<ExpectedId[rels[i].source],
                             ExpectedId[rels[i].target],
                             EdgeHashOf[rels[i]], rels[i].type,
                             rels[i].properties>>
                 /\ call'[c].transactions = 1
                 /\ ~call'[c].committed
                       => /\ call'[c].outcome = "raised"
                          /\ node_rows' = node_rows
                          /\ edge_rows' = edge_rows
                          /\ \/ call'[c].fault
                             \/ ~({NodeTable, EdgeTable} \subseteq db_catalog)
                             \/ \E i \in DOMAIN rels :
                                   /\ ExpectedId[rels[i].source]
                                         \notin DOMAIN node_rows
                                   /\ \A j \in DOMAIN BatchNodes(docs) :
                                         ~SameKey(BatchNodes(docs)[j],
                                                  rels[i].source)
                 /\ (/\ ~call'[c].fault
                     /\ {NodeTable, EdgeTable} \subseteq db_catalog
                     /\ \A i \in DOMAIN rels :
                           \/ ExpectedId[rels[i].source] \in DOMAIN node_rows
                           \/ \E j \in DOMAIN BatchNodes(docs) :
                                 SameKey(BatchNodes(docs)[j], rels[i].source))
                       => /\ call'[c].committed
                          /\ \A i \in DOMAIN rels :
                                <<ExpectedId[rels[i].source],
                                  ExpectedId[rels[i].target],
                                  EdgeHashOf[rels[i]]>> \in DOMAIN edge_rows']_vars

\* The call on d7 committed: the edge from Company Acme to Person Bob is
\* stored under Bob's identifier as dest_id, and no node row has that
\* identifier.
C29_Witness ==
    \E c \in Stores :
        /\ pc[c] = "done"
        /\ call[c].op = "add"
        /\ call[c].args.graph_documents = <<"d7">>
        /\ call[c].committed
        /\ \E k \in DOMAIN edge_rows :
              /\ k[1] = IdCompanyAcme
              /\ k[2] = IdPersonBob
              /\ edge_rows[k].label = TextKNOWS
        /\ IdPersonBob \notin DOMAIN node_rows

\* What hashlib.sha256(s.encode("utf-8")).digest()[:8] and
\* int.from_bytes(..., byteorder="big", signed=True) give for the strings of
\* HashInputs, written out: the 8 bytes and the decimal text of the integer.
ReferenceDigests ==
    {
     \* "Company-Acme" -> -5971594675512984146
     [input |-> <<67, 111, 109, 112, 97, 110, 121, 45, 65, 99, 109, 101>>,
      bytes |-> <<173, 32, 162, 72, 15, 111, 61, 174>>,
      text |-> <<45, 53, 57, 55, 49, 53, 57, 52, 54, 55, 53, 53, 49, 50, 57, 56, 52, 49, 52, 54>>],
     \* "Person-Jane" -> 1131482214299922244
     [input |-> <<80, 101, 114, 115, 111, 110, 45, 74, 97, 110, 101>>,
      bytes |-> <<15, 179, 213, 20, 61, 4, 239, 68>>,
      text |-> <<49, 49, 51, 49, 52, 56, 50, 50, 49, 52, 50, 57, 57, 57, 50, 50, 50, 52, 52>>],
     \* "Person-Bob" -> -8267856494180212850
     [input |-> <<80, 101, 114, 115, 111, 110, 45, 66, 111, 98>>,
      bytes |-> <<141, 66, 172, 82, 210, 123, 95, 142>>,
      text |-> <<45, 56, 50, 54, 55, 56, 53, 54, 52, 57, 52, 49, 56, 48, 50, 49, 50, 56, 53, 48>>],
     \* "-5971594675512984146-EMPLOYS-1131482214299922244" -> -7690513211337193563
     [input |-> <<45, 53, 57, 55, 49, 53, 57, 52, 54, 55, 53, 53, 49, 50, 57, 56, 52, 49, 52, 54, 45, 69, 77, 80, 76, 79, 89, 83, 45, 49, 49, 51, 49, 52, 56, 50, 50, 49, 52, 50, 57, 57, 57, 50, 50, 50, 52, 52>>,
      bytes |-> <<149, 69, 206, 250, 249, 204, 71, 165>>,
      text |-> <<45, 55, 54, 57, 48, 53, 49, 51, 50, 49, 49, 51, 51, 55, 49, 57, 51, 53, 54, 51>>],
     \* "-5971594675512984146-OWNS-1131482214299922244" -> 8217000401222216019
     [input |-> <<45, 53, 57, 55, 49, 53, 57, 52, 54, 55, 53, 53, 49, 50, 57, 56, 52, 49, 52, 54, 45, 79, 87, 78, 83, 45, 49, 49, 51, 49, 52, 56, 50, 50, 49, 52, 50, 57, 57, 57, 50, 50, 50, 52, 52>>,
      bytes |-> <<114, 8, 166, 84, 82, 23, 169, 83>>,
      text |-> <<56, 50, 49, 55, 48, 48, 48, 52, 48, 49, 50, 50, 50, 50, 49, 54, 48, 49, 57>>],
     \* "-8267856494180212850-KNOWS--5971594675512984146" -> 6959256870971044183
     [input |-> <<45, 56, 50, 54, 55, 56, 53, 54, 52, 57, 52, 49, 56, 48, 50, 49, 50, 56, 53, 48, 45, 75, 78, 79, 87, 83, 45, 45, 53, 57, 55, 49, 53, 57, 52, 54, 55, 53, 53, 49, 50, 57, 56, 52, 49, 52, 54>>,
      bytes |-> <<96, 148, 63, 64, 158, 236, 241, 87>>,
      text |-> <<54, 57, 53, 57, 50, 53, 54, 56, 55, 48, 57, 55, 49, 48, 52, 52, 49, 56, 51>>],
     \* "-5971594675512984146-KNOWS--8267856494180212850" -> -3016472750067173315
     [input |-> <<45, 53, 57, 55, 49, 53, 57, 52, 54, 55, 53, 53, 49, 50, 57, 56, 52, 49, 52, 54, 45, 75, 78, 79, 87, 83, 45, 45, 56, 50, 54, 55, 56, 53, 54, 52, 57, 52, 49, 56, 48, 50, 49, 50, 56, 53, 48>>,
      bytes |-> <<214, 35, 86, 4, 9, 153, 184, 61>>,
      text |-> <<45, 51, 48, 49, 54, 52, 55, 50, 55, 53, 48, 48, 54, 55, 49, 55, 51, 51, 49, 53>>],
     \* "" -> -2039914840885289964
     [input |-> <<>>,
      bytes |-> <<227, 176, 196, 66, 152, 252, 28, 20>>,
      text |-> <<45, 50, 48, 51, 57, 57, 49, 52, 56, 52, 48, 56, 56, 53, 50, 56, 57, 57, 54, 52>>],
     \* "Company-acme" -> -3893645371689142684
     [input |-> <<67, 111, 109, 112, 97, 110, 121, 45, 97, 99, 109, 101>>,
      bytes |-> <<201, 246, 254, 41, 243, 31, 246, 100>>,
      text |-> <<45, 51, 56, 57, 51, 54, 52, 53, 51, 55, 49, 54, 56, 57, 49, 52, 50, 54, 56, 52>>],
     \* "Company-Acm" -> 2241649995040584594
     [input |-> <<67, 111, 109, 112, 97, 110, 121, 45, 65, 99, 109>>,
      bytes |-> <<31, 27, 240, 203, 49, 38, 115, 146>>,
      text |-> <<50, 50, 52, 49, 54, 52, 57, 57, 57, 53, 48, 52, 48, 53, 56, 52, 53, 57, 52>>],
     \* "Acme-Company" -> 5909111968120173403
     [input |-> <<65, 99, 109, 101, 45, 67, 111, 109, 112, 97, 110, 121>>,
      bytes |-> <<82, 1, 98, 6, 245, 207, 243, 91>>,
      text |-> <<53, 57, 48, 57, 49, 49, 49, 57, 54, 56, 49, 50, 48, 49, 55, 51, 52, 48, 51>>],
     \* "Company-" -> -7892417679022395676
     [input |-> <<67, 111, 109, 112, 97, 110, 121, 45>>,
      bytes |-> <<146, 120, 127, 239, 206, 219, 110, 228>>,
      text |-> <<45, 55, 56, 57, 50, 52, 49, 55, 54, 55, 57, 48, 50, 50, 51, 57, 53, 54, 55, 54>>],
     \* "Company-Acm\xe9" -> 6013059811417463665
     [input |-> <<67, 111, 109, 112, 97, 110, 121, 45, 65, 99, 109, 233>>,
      bytes |-> <<83, 114, 174, 10, 56, 183, 27, 113>>,
      text |-> <<54, 48, 49, 51, 48, 53, 57, 56, 49, 49, 52, 49, 55, 52, 54, 51, 54, 54, 53>>],
     \* "Company-\u20ac" -> -1503620568832895590
     [input |-> <<67, 111, 109, 112, 97, 110, 121, 45, 8364>>,
      bytes |-> <<235, 34, 17, 15, 37, 190, 149, 154>>,
      text |-> <<45, 49, 53, 48, 51, 54, 50, 48, 53, 54, 56, 56, 51, 50, 56, 57, 53, 53, 57, 48>>]
    }

\* "9223372036854775807" and "9223372036854775808": the decimal digits of
\* 2^63 - 1 and of 2^63.
TextInt64Max ==
    <<57, 50, 50, 51, 51, 55, 50, 48, 51, 54, 56, 53, 52, 55, 55, 53, 56, 48, 55>>

TextInt64MinMagnitude ==
    <<57, 50, 50, 51, 51, 55, 50, 48, 51, 54, 56, 53, 52, 55, 55, 53, 56, 48, 56>>

\* a <= b for two decimal digit strings without leading zeros.
RECURSIVE DigitsAtMost(_, _)
DigitsAtMost(a, b) ==
    IF Len(a) # Len(b) THEN Len(a) < Len(b)
    ELSE IF a = <<>> THEN TRUE
    ELSE IF Head(a) # Head(b) THEN Head(a) < Head(b)
    ELSE DigitsAtMost(Tail(a), Tail(b))

\* Whether the decimal text is that of an integer in [-2^63, 2^63 - 1].
InInt64Range(text) ==
    IF Head(text) = 45 THEN DigitsAtMost(Tail(text), TextInt64MinMagnitude)
    ELSE DigitsAtMost(text, TextInt64Max)

\* C30: identifiers are signed 64-bit integers cut from SHA-256.  Every
\* call of _get_int64_hash returns 8 bytes, the first 8 bytes of the SHA-256
\* digest of the string's UTF-8 encoding as hashlib gives them; read
\* big-endian in two's complement they are the integer that Python prints,
\* negative exactly when the first bit is set and within [-2^63, 2^63 - 1].
\* The identifier of every node is that function of "{type}-{id}", and the
\* identifier of every edge that function of "{source}-{type}-{target}" with
\* the two node identifiers in decimal.
C30_SignedInt64FromDigest ==
    /\ \A i \in DOMAIN hash_calls :
          /\ Len(hash_calls[i].result) = 8
          /\ \A k \in 1..8 : hash_calls[i].result[k] \in 0..255
          /\ \E ref \in ReferenceDigests :
                /\ ref.input = hash_calls[i].input_string
                /\ hash_calls[i].result = ref.bytes
                /\ Int64ToText(hash_calls[i].result) = ref.text
                /\ (ref.text[1] = 45) <=> (hash_calls[i].result[1] >= 128)
                /\ InInt64Range(ref.text)
    /\ \A n \in NodeObjects :
          \E ref \in ReferenceDigests :
             /\ ref.input = NodeType[n] \o <<45>> \o NodeId[n]
             /\ NodeHashOf[n] = ref.bytes
    /\ \A r \in AllRelationships :
          \E ref, s, t \in ReferenceDigests :
             /\ s.input = NodeType[r.source] \o <<45>> \o NodeId[r.source]
             /\ t.input = NodeType[r.target] \o <<45>> \o NodeId[r.target]
             /\ ref.input = s.text \o <<45>> \o r.type \o <<45>> \o t.text
             /\ EdgeHashOf[r] = ref.bytes

\* _get_int64_hash was called on the key of the EMPLOYS edge,
\* "-5971594675512984146-EMPLOYS-1131482214299922244", and on the key of the
\* OWNS edge: the first result is negative, the second positive.
C30_Witness ==
    /\ Len(hash_calls) = 2
    /\ hash_calls[1].input_string =
           EdgeKeyText(IdCompanyAcme, TextEMPLOYS, IdPersonJane)
    /\ hash_calls[1].result = <<149, 69, 206, 250, 249, 204, 71, 165>>
    /\ hash_calls[2].input_string =
           EdgeKeyText(IdCompanyAcme, TextOWNS, IdPersonJane)
    /\ hash_calls[2].result = <<114, 8, 166, 84, 82, 23, 169, 83>>

(***************************************************************************)
(* C31                                                                     *)
(***************************************************************************)

\* The items the transformer of the call reads for its i-th document: the
\* array of the text, or for LangExtract the array under "extractions".
ExtractedItems(i) ==
    IF \/ responses[i].json = "array"
       \/ /\ tf_call.transformer = "langextract"
          /\ responses[i].json = "object"
          /\ responses[i].key = "extractions"
    THEN responses[i].items
    ELSE <<>>

\* The positions of the items that describe a node, and of those that
\* describe a relationship.
NodeItemPositions(items) ==
    {j \in DOMAIN items :
        {"id", "type"} \subseteq DOMAIN items[j]
        /\ "source" \notin DOMAIN items[j]}

RelationshipItemPositions(items) ==
    {j \in DOMAIN items : {"source", "target", "type"} \subseteq DOMAIN items[j]}

\* The ids for which the model gave a node.
ExtractedNodeIds(items) == {items[j].id : j \in NodeItemPositions(items)}

\* The relationship items both of whose endpoints name an extracted node.
ResolvedPositions(items) ==
    {j \in RelationshipItemPositions(items) :
        /\ items[j].source \in ExtractedNodeIds(items)
        /\ items[j].target \in ExtractedNodeIds(items)}

\* The first node item with the id.
FirstPosition(items, id) ==
    CHOOSE j \in NodeItemPositions(items) :
        /\ items[j].id = id
        /\ \A k \in NodeItemPositions(items) : items[k].id = id => j <= k

\* C31: in every GraphDocument a transformer produced, the source and the
\* target of each relationship are nodes of the document's nodes list; no
\* two nodes of the list have the same id, every extracted id has its node
\* and the node has the type of the first item with that id; and the
\* relationships are those of the relationship items whose two endpoint ids
\* name an extracted node, the other relationship items being dropped.
C31_EndpointsAreListedNodes ==
    \A i \in DOMAIN results :
        LET gd == results[i]
            items == ExtractedItems(i)
        IN  /\ \A r \in DOMAIN gd.relationships :
                   /\ \E k \in DOMAIN gd.nodes :
                          gd.nodes[k] = gd.relationships[r].source
                   /\ \E k \in DOMAIN gd.nodes :
                          gd.nodes[k] = gd.relationships[r].target
            /\ \A k, l \in DOMAIN gd.nodes :
                   k # l => gd.nodes[k].id # gd.nodes[l].id
            /\ {gd.nodes[k].id : k \in DOMAIN gd.nodes}
                   = ExtractedNodeIds(items)
            /\ \A k \in DOMAIN gd.nodes :
                   gd.nodes[k].type
                       = items[FirstPosition(items, gd.nodes[k].id)].type
            /\ Len(gd.relationships) = Cardinality(ResolvedPositions(items))
            /\ \A j \in RelationshipItemPositions(items) \ ResolvedPositions(items) :
                   \A r \in DOMAIN gd.relationships :
                       ~ /\ gd.relationships[r].source.id = items[j].source
                         /\ gd.relationships[r].target.id = items[j].target
                         /\ gd.relationships[r].type = items[j].type

\* LangExtract returned the document of a text with two node items of
\* different ids and a relationship item between them: two nodes and one
\* relationship, whose source is the Company node of the list.
C31_Witness ==
    /\ tf_call.transformer = "langextract"
    /\ tf_call.outcome = "returned"
    /\ Len(results) = 1
    /\ Len(results[1].nodes) = 2
    /\ Len(results[1].relationships) = 1
    /\ results[1].relationships[1].source.type = TextCompany
    /\ \E k \in DOMAIN results[1].nodes :
           results[1].nodes[k] = results[1].relationships[1].source

(***************************************************************************)
(* C32                                                                     *)
(***************************************************************************)

\* The model's answers to which the claim speaks: the call raised, the text
\* is missing or is not JSON, or the text is the JSON array asked for.
AnswersWithinClaim ==
    \A i \in DOMAIN responses :
        \/ responses[i].call = "raises"
        \/ responses[i].json \in {"none", "invalid", "array"}

\* C32: GeminiGraphTransformer.process_documents does not raise because of
\* the model and returns one GraphDocument per input document in input
\* order; for a document whose model call raised or whose response text is
\* not valid JSON, the GraphDocument has no nodes, no relationships and the
\* document as source.
C32_OneGraphDocumentPerDocument ==
    (tf_call.transformer = "gemini" /\ AnswersWithinClaim) =>
        /\ tf_call.outcome \in {"running", "returned"}
        /\ Len(results) = Len(responses)
        /\ tf_call.outcome = "returned" =>
               Len(results) = Len(tf_call.documents)
        /\ \A i \in DOMAIN results :
               /\ results[i].source = tf_call.documents[i]
               /\ (responses[i].call = "raises"
                      \/ responses[i].json \in {"none", "invalid"}) =>
                      /\ results[i].nodes = <<>>
                      /\ results[i].relationships = <<>>
====
